---- MODULE Spec2Model ----
(***************************************************************************)
(* Query orchestration and analytics pipeline of the payments assistant:   *)
(* SQL translator post-processing and validation, the data-manager safety  *)
(* validator, the cached SQL executor and the orchestrator with its        *)
(* per-conversation histories.                                             *)
(*                                                                         *)
(* A text is a sequence of one-character strings.  The backtick cannot be  *)
(* written inside a TLA+ string, so the character is named BT.             *)
(***************************************************************************)
EXTENDS Naturals, Integers, Sequences, FiniteSets, TLC

(***************************************************************************)
(* Characters and the string operations of Python that the code uses.      *)
(***************************************************************************)
BT == "backtick"

Lowers == <<"a", "b", "c", "d", "e", "f", "g", "h", "i", "j", "k", "l", "m",
            "n", "o", "p", "q", "r", "s", "t", "u", "v", "w", "x", "y", "z">>

Uppers == <<"A", "B", "C", "D", "E", "F", "G", "H", "I", "J", "K", "L", "M",
            "N", "O", "P", "Q", "R", "S", "T", "U", "V", "W", "X", "Y", "Z">>

Digits == {"0", "1", "2", "3", "4", "5", "6", "7", "8", "9"}

LowerSet == {Lowers[i] : i \in 1..26}

UpperSet == {Uppers[i] : i \in 1..26}

\* str.upper() / str.lower() on one character
UpperOf == [c \in LowerSet |-> Uppers[CHOOSE i \in 1..26 : Lowers[i] = c]]

LowerOf == [c \in UpperSet |-> Lowers[CHOOSE i \in 1..26 : Uppers[i] = c]]

UpperChar(c) == IF c \in LowerSet THEN UpperOf[c] ELSE c

LowerChar(c) == IF c \in UpperSet THEN LowerOf[c] ELSE c

StrUpper(s) == [i \in 1..Len(s) |-> UpperChar(s[i])]

StrLower(s) == [i \in 1..Len(s) |-> LowerChar(s[i])]

\* whitespace of str.strip(), str.split() and the regex class \s
Whitespace == {" ", "\n", "\t"}

\* the regex class \w, which decides where \b matches
WordChars == LowerSet \cup UpperSet \cup Digits \cup {"_"}

\* s[i:] with a 1-based index
StrFrom(s, i) == SubSeq(s, i, Len(s))

\* str.lstrip(), str.rstrip(), str.strip()
LStrip(s) ==
    IF \A i \in 1..Len(s) : s[i] \in Whitespace THEN <<>>
    ELSE StrFrom(s, CHOOSE i \in 1..Len(s) :
                       /\ s[i] \notin Whitespace
                       /\ \A j \in 1..(i - 1) : s[j] \in Whitespace)

\* str.rstrip(chars): drop the longest suffix made of characters of chars
RStripChars(s, chars) ==
    IF \A i \in 1..Len(s) : s[i] \in chars THEN <<>>
    ELSE SubSeq(s, 1, CHOOSE i \in 1..Len(s) :
                         /\ s[i] \notin chars
                         /\ \A j \in (i + 1)..Len(s) : s[j] \in chars)

Strip(s) == LStrip(RStripChars(s, Whitespace))

\* s[i:].startswith(p) with a 1-based index
MatchAt(s, i, p) ==
    /\ i >= 1
    /\ i + Len(p) - 1 <= Len(s)
    /\ \A k \in 1..Len(p) : s[i + k - 1] = p[k]

\* str.startswith(p)
StartsWith(s, p) == MatchAt(s, 1, p)

\* p in s (substring test)
Contains(s, p) == \E i \in 1..(Len(s) + 1) : MatchAt(s, i, p)

\* the index of the first character at or after i that is no whitespace
SkipSpaces(s, i) ==
    IF \A j \in i..Len(s) : s[j] \in Whitespace THEN Len(s) + 1
    ELSE CHOOSE j \in i..Len(s) :
             /\ s[j] \notin Whitespace
             /\ \A k \in i..(j - 1) : s[k] \in Whitespace

\* the index of the first whitespace character at or after i
SkipWord(s, i) ==
    IF \A j \in i..Len(s) : s[j] \notin Whitespace THEN Len(s) + 1
    ELSE CHOOSE j \in i..Len(s) :
             /\ s[j] \in Whitespace
             /\ \A k \in i..(j - 1) : s[k] \notin Whitespace

\* the indices at which a run of non-whitespace characters begins
WordStarts(s) ==
    {i \in 1..Len(s) : s[i] \notin Whitespace /\ (i = 1 \/ s[i - 1] \in Whitespace)}

\* str.split(): the maximal runs of non-whitespace characters, in order
Split(s) ==
    [k \in 1..Cardinality(WordStarts(s)) |->
        LET a == CHOOSE i \in WordStarts(s) :
                     Cardinality({j \in WordStarts(s) : j <= i}) = k
        IN  SubSeq(s, a, SkipWord(s, a) - 1)]

\* x in list
InList(x, list) == \E k \in 1..Len(list) : list[k] = x

\* the regex assertion \b at the position before index i (i in 1..Len(s)+1):
\* exactly one of the two neighbouring positions holds a \w character
IsWordAt(s, i) == i >= 1 /\ i <= Len(s) /\ s[i] \in WordChars

WordBoundary(s, i) == IsWordAt(s, i - 1) # IsWordAt(s, i)

\* \b<kw>\b matches at index i under re.IGNORECASE (kw is upper case)
RegexWordAt(s, i, kw) ==
    /\ i >= 1
    /\ i + Len(kw) - 1 <= Len(s)
    /\ \A k \in 1..Len(kw) : UpperChar(s[i + k - 1]) = kw[k]
    /\ WordBoundary(s, i)
    /\ WordBoundary(s, i + Len(kw))

\* re.sub(lit + '\s*', '', s): every occurrence of lit and the whitespace
\* after it is removed, scanning left to right
RECURSIVE ReSubFrom(_, _, _)
ReSubFrom(s, lit, i) ==
    IF i > Len(s) THEN <<>>
    ELSE IF MatchAt(s, i, lit) THEN ReSubFrom(s, lit, SkipSpaces(s, i + Len(lit)))
    ELSE <<s[i]>> \o ReSubFrom(s, lit, i + 1)

ReSub(s, lit) == ReSubFrom(s, lit, 1)

(***************************************************************************)
(* SQL translator: post-processing and validation of the completion        *)
(* service's response (translator.py).                                     *)
(***************************************************************************)
KwSelect == <<"S", "E", "L", "E", "C", "T">>

KwWith == <<"W", "I", "T", "H">>

KwLimit == <<"L", "I", "M", "I", "T">>

TableName == <<"t", "r", "a", "n", "s", "a", "c", "t", "i", "o", "n", "s">>

FenceSql == <<BT, BT, BT, "s", "q", "l">>

Fence == <<BT, BT, BT>>

\* the text appended by _ensure_limit with max_rows = 10000
LimitClause == <<"\n", "L", "I", "M", "I", "T", " ", "1", "0", "0", "0", "0">>

\* DataManager.DANGEROUS_KEYWORDS
DANGEROUS_KEYWORDS ==
    { <<"D", "R", "O", "P">>, <<"D", "E", "L", "E", "T", "E">>,
      <<"U", "P", "D", "A", "T", "E">>, <<"I", "N", "S", "E", "R", "T">>,
      <<"A", "L", "T", "E", "R">>, <<"T", "R", "U", "N", "C", "A", "T", "E">>,
      <<"C", "R", "E", "A", "T", "E">>, <<"R", "E", "P", "L", "A", "C", "E">> }

\* the alternatives of SQLTranslator.DANGEROUS_PATTERNS
DANGEROUS_WORDS ==
    DANGEROUS_KEYWORDS \cup { <<"E", "X", "E", "C">>, <<"E", "X", "E", "C", "U", "T", "E">> }

\* faulty variant of DANGEROUS_PATTERNS: the keywords are searched as plain
\* substrings, without the \b assertions
DANGEROUS_PATTERNS_substring(sql) ==
    \E kw \in DANGEROUS_WORDS : Contains(StrUpper(sql), kw)

\* DANGEROUS_PATTERNS.search(sql): \b(DROP|...|EXECUTE)\b, re.IGNORECASE
DANGEROUS_PATTERNS(sql) ==
    \E kw \in DANGEROUS_WORDS : \E i \in 1..Len(sql) : RegexWordAt(sql, i, kw)

\* SQLTranslator._clean_sql
_clean_sql(sql) ==
    LET a == ReSub(sql, FenceSql)
        b == ReSub(a, Fence)
        hits == {i \in 1..Len(b) : RegexWordAt(b, i, KwSelect) \/ RegexWordAt(b, i, KwWith)}
        c == IF hits = {} THEN b
             ELSE StrFrom(b, CHOOSE i \in hits : \A j \in hits : i <= j)
    IN  Strip(RStripChars(c, {";"}))

\* a variant of _validate_sql that tests the start of the statement only
_validate_sql_start_only(sql) ==
    IF sql = <<>> THEN FALSE
    ELSE IF ~(StartsWith(Strip(StrUpper(sql)), KwSelect)
              \/ StartsWith(Strip(StrUpper(sql)), KwWith)) THEN FALSE
    ELSE TRUE

\* SQLTranslator._validate_sql
_validate_sql(sql) ==
    IF sql = <<>> THEN FALSE
    ELSE IF DANGEROUS_PATTERNS(sql) THEN FALSE
    ELSE IF ~(StartsWith(Strip(StrUpper(sql)), KwSelect)
              \/ StartsWith(Strip(StrUpper(sql)), KwWith)) THEN FALSE
    ELSE IF ~Contains(StrLower(sql), TableName) THEN FALSE
    ELSE TRUE

\* SQLTranslator._ensure_limit
_ensure_limit(sql) ==
    IF ~Contains(StrUpper(sql), KwLimit) THEN sql \o LimitClause ELSE sql

\* the value that stands for Python's None where a text is expected
NoneText == <<"None">>

\* the outcome of a completion call that raises instead of answering a text
LlmRaise == <<"raise">>

\* faulty variant of translate: the cleaned text is returned without the
\* call of _validate_sql
translate_unchecked(reply) ==
    IF reply = LlmRaise
    THEN [ok |-> FALSE, sql |-> NoneText,
          error |-> [kind |-> "Failed to generate SQL", sql |-> NoneText]]
    ELSE [ok |-> TRUE, sql |-> _ensure_limit(_clean_sql(Strip(reply))),
          error |-> [kind |-> "None", sql |-> NoneText]]

\* SQLTranslator.translate, given the outcome of the completion call: the
\* SQL text returned, or the TranslationError raised
translate(reply) ==
    IF reply = LlmRaise
    THEN [ok |-> FALSE, sql |-> NoneText,
          error |-> [kind |-> "Failed to generate SQL", sql |-> NoneText]]
    ELSE LET sql == _clean_sql(Strip(reply))
         IN  IF ~_validate_sql(sql)
             THEN [ok |-> FALSE, sql |-> NoneText,
                   error |-> [kind |-> "SQL failed validation", sql |-> sql]]
             ELSE [ok |-> TRUE, sql |-> _ensure_limit(sql),
                   error |-> [kind |-> "None", sql |-> NoneText]]

(***************************************************************************)
(* Data manager: the safety validator (data_manager.py).                   *)
(***************************************************************************)
\* DataManager.validate_query; sql_upper and the token list are bound to
\* their values once, as the assignment in the code does
validate_query(sql) ==
    \E sql_upper \in {Strip(StrUpper(sql))} : \E tokens \in {Split(sql_upper)} :
        IF \E kw \in DANGEROUS_KEYWORDS : InList(kw, tokens) THEN FALSE
        ELSE IF ~StartsWith(sql_upper, KwSelect) /\ ~StartsWith(sql_upper, KwWith) THEN FALSE
        ELSE TRUE

(***************************************************************************)
(* Query router (router.py).                                               *)
(***************************************************************************)
\* QueryRouter.DATA_KEYWORDS
DATA_KEYWORDS ==
    { <<"h", "o", "w", " ", "m", "a", "n", "y">>, <<"c", "o", "u", "n", "t">>,
      <<"t", "o", "t", "a", "l">>, <<"a", "v", "e", "r", "a", "g", "e">>,
      <<"m", "e", "a", "n">>, <<"m", "e", "d", "i", "a", "n">>, <<"s", "u", "m">>,
      <<"m", "a", "x">>, <<"m", "i", "n">>, <<"h", "i", "g", "h", "e", "s", "t">>,
      <<"l", "o", "w", "e", "s", "t">>, <<"t", "o", "p">>, <<"b", "o", "t", "t", "o", "m">>,
      <<"r", "a", "t", "e">>, <<"p", "e", "r", "c", "e", "n", "t", "a", "g", "e">>,
      <<"p", "e", "r", "c", "e", "n", "t">>, <<"r", "a", "t", "i", "o">>,
      <<"t", "r", "e", "n", "d">>, <<"g", "r", "o", "w", "t", "h">>,
      <<"c", "o", "m", "p", "a", "r", "e">>,
      <<"c", "o", "m", "p", "a", "r", "i", "s", "o", "n">>,
      <<"b", "r", "e", "a", "k", "d", "o", "w", "n">>,
      <<"d", "i", "s", "t", "r", "i", "b", "u", "t", "i", "o", "n">>,
      <<"t", "r", "a", "n", "s", "a", "c", "t", "i", "o", "n">>,
      <<"t", "r", "a", "n", "s", "a", "c", "t", "i", "o", "n", "s">>,
      <<"p", "a", "y", "m", "e", "n", "t">>, <<"p", "a", "y", "m", "e", "n", "t", "s">>,
      <<"f", "r", "a", "u", "d">>, <<"f", "a", "i", "l", "u", "r", "e">>,
      <<"s", "u", "c", "c", "e", "s", "s">>, <<"f", "a", "i", "l", "e", "d">>,
      <<"u", "p", "i">>, <<"m", "e", "r", "c", "h", "a", "n", "t">>, <<"b", "a", "n", "k">>,
      <<"s", "t", "a", "t", "e">>, <<"d", "e", "v", "i", "c", "e">>,
      <<"n", "e", "t", "w", "o", "r", "k">>, <<"p", "2", "p">>, <<"p", "2", "m">>,
      <<"b", "i", "l", "l">>, <<"r", "e", "c", "h", "a", "r", "g", "e">>,
      <<"a", "m", "o", "u", "n", "t">>, <<"r", "e", "v", "e", "n", "u", "e">>,
      <<"v", "o", "l", "u", "m", "e">>, <<"f", "r", "e", "q", "u", "e", "n", "c", "y">>,
      <<"m", "o", "n", "t", "h", "l", "y">>, <<"w", "e", "e", "k", "l", "y">>,
      <<"d", "a", "i", "l", "y">>, <<"h", "o", "u", "r", "l", "y">>,
      <<"w", "e", "e", "k", "e", "n", "d">>, <<"w", "e", "e", "k", "d", "a", "y">>,
      <<"s", "e", "n", "d", "e", "r">>, <<"r", "e", "c", "e", "i", "v", "e", "r">>,
      <<"a", "g", "e", " ", "g", "r", "o", "u", "p">>,
      <<"a", "g", "e", "_", "g", "r", "o", "u", "p">>, <<"a", "n", "d", "r", "o", "i", "d">>,
      <<"i", "o", "s">>, <<"w", "i", "f", "i">>, <<"3", "g">>, <<"4", "g">>, <<"5", "g">>,
      <<"s", "h", "o", "w", " ", "m", "e">>, <<"l", "i", "s", "t">>, <<"f", "i", "n", "d">>,
      <<"f", "e", "t", "c", "h">>, <<"g", "e", "t">>, <<"w", "h", "i", "c", "h">>,
      <<"w", "h", "a", "t", " ", "i", "s", " ", "t", "h", "e">>,
      <<"w", "h", "a", "t", " ", "a", "r", "e", " ", "t", "h", "e">>,
      <<"w", "h", "a", "t", "'", "s", " ", "t", "h", "e">>,
      <<"c", "a", "l", "c", "u", "l", "a", "t", "e">>, <<"a", "n", "a", "l", "y", "s", "e">>,
      <<"a", "n", "a", "l", "y", "z", "e">>, <<"q", "u", "e", "r", "y">>,
      <<"c", "h", "a", "r", "t">>, <<"g", "r", "a", "p", "h">>, <<"p", "l", "o", "t">>,
      <<"v", "i", "s", "u", "a", "l", "i", "z", "e">>,
      <<"g", "r", "o", "u", "p", " ", "b", "y">>, <<"s", "o", "r", "t", " ", "b", "y">>,
      <<"o", "r", "d", "e", "r", " ", "b", "y">>, <<"f", "i", "l", "t", "e", "r">> }

\* QueryRouter.GENERAL_KEYWORDS
GENERAL_KEYWORDS ==
    { <<"h", "e", "l", "l", "o">>, <<"h", "i">>, <<"h", "e", "y">>,
      <<"t", "h", "a", "n", "k", "s">>, <<"t", "h", "a", "n", "k", " ", "y", "o", "u">>,
      <<"b", "y", "e">>, <<"g", "o", "o", "d", " ", "m", "o", "r", "n", "i", "n", "g">>,
      <<"g", "o", "o", "d", " ", "e", "v", "e", "n", "i", "n", "g">>,
      <<"g", "o", "o", "d", " ", "n", "i", "g", "h", "t">>,
      <<"w", "h", "o", " ", "a", "r", "e", " ", "y", "o", "u">>,
      <<"w", "h", "a", "t", " ", "a", "r", "e", " ", "y", "o", "u">>,
      <<"y", "o", "u", "r", " ", "n", "a", "m", "e">>, <<"h", "e", "l", "p", " ", "m", "e">>,
      <<"w", "h", "a", "t", " ", "c", "a", "n", " ", "y", "o", "u", " ", "d", "o">>,
      <<"h", "o", "w", " ", "d", "o", " ", "y", "o", "u", " ", "w", "o", "r", "k">>,
      <<"e", "x", "p", "l", "a", "i", "n">>,
      <<"t", "e", "l", "l", " ", "m", "e", " ", "a", "b", "o", "u", "t", " ", "y", "o", "u", "r", "s", "e", "l", "f">>,
      <<"i", "n", "t", "r", "o", "d", "u", "c", "e">> }

\* QueryRouter.FOLLOWUP_INDICATORS
FOLLOWUP_INDICATORS ==
    { <<"b", "o", "t", "h">>, <<"e", "i", "t", "h", "e", "r">>,
      <<"w", "h", "i", "c", "h", " ", "o", "n", "e">>, <<"o", "u", "t", " ", "o", "f">>,
      <<"b", "e", "t", "w", "e", "e", "n", " ", "t", "h", "e", "m">>,
      <<"t", "h", "e", " ", "f", "i", "r", "s", "t">>,
      <<"t", "h", "e", " ", "s", "e", "c", "o", "n", "d">>,
      <<"t", "h", "e", " ", "s", "a", "m", "e">>, <<"t", "h", "o", "s", "e">>,
      <<"t", "h", "e", "s", "e">>, <<"t", "h", "a", "t">>, <<"t", "h", "e", "m">>, <<"i", "t">>,
      <<"i", "t", "s">>, <<"t", "h", "e", "i", "r">>, <<"t", "h", "e", "y">>,
      <<"m", "o", "r", "e">>, <<"l", "e", "s", "s">>, <<"b", "e", "t", "t", "e", "r">>,
      <<"w", "o", "r", "s", "e">>, <<"h", "i", "g", "h", "e", "r">>,
      <<"l", "o", "w", "e", "r">>, <<"i", "n", "s", "t", "e", "a", "d">>,
      <<"a", "l", "s", "o">>, <<"a", "s", " ", "w", "e", "l", "l">>, <<"t", "o", "o">>,
      <<"a", "g", "a", "i", "n">>, <<"n", "o", "w", " ", "s", "h", "o", "w">>,
      <<"n", "o", "w", " ", "c", "o", "m", "p", "a", "r", "e">>,
      <<"n", "o", "w", " ", "f", "i", "l", "t", "e", "r">>,
      <<"w", "h", "a", "t", " ", "a", "b", "o", "u", "t">>,
      <<"a", "n", "d", " ", "w", "h", "a", "t">>, <<"a", "n", "d", " ", "h", "o", "w">>,
      <<"b", "u", "t", " ", "w", "h", "a", "t">>, <<"b", "u", "t", " ", "h", "o", "w">>,
      <<"s", "a", "m", "e", " ", "t", "h", "i", "n", "g">>,
      <<"s", "a", "m", "e", " ", "q", "u", "e", "r", "y">>,
      <<"s", "a", "m", "e", " ", "d", "a", "t", "a">>,
      <<"b", "r", "e", "a", "k", " ", "i", "t", " ", "d", "o", "w", "n">>,
      <<"d", "r", "i", "l", "l", " ", "d", "o", "w", "n">>,
      <<"g", "o", " ", "d", "e", "e", "p", "e", "r">>,
      <<"p", "r", "e", "v", "i", "o", "u", "s">>,
      <<"l", "a", "s", "t", " ", "q", "u", "e", "s", "t", "i", "o", "n">>,
      <<"e", "a", "r", "l", "i", "e", "r">> }

\* re.search(r'\b' + re.escape(kw) + r'\b', s)
RegexPhrase(s, kw) ==
    \E i \in 1..Len(s) :
        /\ MatchAt(s, i, kw)
        /\ WordBoundary(s, i)
        /\ WordBoundary(s, i + Len(kw))

\* faulty variant of _is_followup: the indicators are matched as whole words
_is_followup_words(query_lower) ==
    \E indicator \in FOLLOWUP_INDICATORS : RegexPhrase(query_lower, indicator)

\* QueryRouter._is_followup
_is_followup(query_lower) ==
    \E indicator \in FOLLOWUP_INDICATORS : Contains(query_lower, indicator)

\* faulty variant of _keyword_classify: one data phrase is enough
_keyword_classify_one_hit(query_lower) ==
    IF \E kw \in GENERAL_KEYWORDS : RegexPhrase(query_lower, kw) THEN "general"
    ELSE IF \E kw \in DATA_KEYWORDS : RegexPhrase(query_lower, kw) THEN "data"
    ELSE "None"

\* QueryRouter._keyword_classify: "general", "data" or "None" (ambiguous)
_keyword_classify(query_lower) ==
    IF \E kw \in GENERAL_KEYWORDS : RegexPhrase(query_lower, kw) THEN "general"
    ELSE LET data_score == Cardinality({kw \in DATA_KEYWORDS : RegexPhrase(query_lower, kw)})
         IN  IF data_score >= 2 THEN "data"
             ELSE IF data_score = 1 /\ Contains(query_lower, <<"?">>) THEN "data"
             ELSE "None"

\* faulty variant of _llm_classify: an answer that names neither class, and
\* a failed call, give "general"
_llm_classify_general_default(reply) ==
    IF reply = LlmRaise THEN "general"
    ELSE LET classification == StrUpper(Strip(reply))
         IN  IF Contains(classification, <<"D", "A", "T", "A">>) THEN "data"
             ELSE "general"

\* QueryRouter._llm_classify, given the outcome of the completion call
_llm_classify(reply) ==
    IF reply = LlmRaise THEN "data"
    ELSE LET classification == StrUpper(Strip(reply))
         IN  IF Contains(classification, <<"D", "A", "T", "A">>) THEN "data"
             ELSE IF Contains(classification, <<"G", "E", "N", "E", "R", "A", "L">>) THEN "general"
             ELSE "data"

\* faulty variant of ClassifyFrom: with data history a short question is
\* answered as general whatever the phrase rules found
ClassifyFrom_general_override(query_lower, keyword_result, has_data_history, reply) ==
    IF has_data_history /\ _is_followup(query_lower) THEN "data"
    ELSE IF keyword_result # "None"
    THEN IF /\ has_data_history
            /\ Len(Split(query_lower)) <= 10
            /\ Contains(query_lower, <<"?">>)
         THEN "general"
         ELSE keyword_result
    ELSE _llm_classify(reply)

\* QueryRouter.classify, with query_lower and keyword_result already computed
ClassifyFrom(query_lower, keyword_result, has_data_history, reply) ==
    IF has_data_history /\ _is_followup(query_lower) THEN "data"
    ELSE IF keyword_result # "None"
    THEN IF /\ keyword_result = "general"
            /\ has_data_history
            /\ Len(Split(query_lower)) <= 10
            /\ Contains(query_lower, <<"?">>)
         THEN "data"
         ELSE keyword_result
    ELSE _llm_classify(reply)

\* QueryRouter.classify; reply is the outcome of the completion call, used
\* only when the keyword rules leave the query ambiguous.  query_lower and
\* keyword_result are bound to their values once, as the assignments in the
\* code do.
classify(user_query, has_data_history, reply) ==
    CHOOSE query_type \in
        { ClassifyFrom(query_lower, _keyword_classify(query_lower),
                       has_data_history, reply) :
            query_lower \in {Strip(StrLower(user_query))} } : TRUE

(***************************************************************************)
(* Bounds of the model.                                                    *)
(***************************************************************************)
\* stands for SQLExecutor._cache_max_size (50 in the source): the number of
\* entries at which the result cache stops storing
CacheMaxSize == 2

\* stands for InsightXEngine._max_history (100 in the source): the number of
\* entries a history track keeps
MaxHistory == 2

\* stands for the 50 of history[-50:] in translate and in
\* _handle_general_query: the number of history turns sent to the
\* completion service as context, half the cap of a track or less
ContextTurns == 1

\* the measured latencies of an engine call are 1..MaxElapsed milliseconds
MaxElapsed == 2

\* a probe text is the concatenation of at most MaxFrags fragments
MaxFrags == 3

\* the largest number of rows of a probed result table
MaxRows == 2

\* the probed router texts have at most MaxWords words after the filler
MaxWords == 3

\* classify is probed at most MaxCalls times on the same inputs
MaxCalls == 2

\* max_retries of translate_with_retry (its default, which process_query
\* uses): a constant of the program, not a bound of the model
MaxRetries == 2

(***************************************************************************)
(* State.                                                                  *)
(***************************************************************************)
VARIABLES
    conversations,           \* InsightXEngine._conversations: id -> data track
    general_conversations,   \* InsightXEngine._general_conversations: id -> general track
    query_cache,             \* SQLExecutor._query_cache: SQL text -> table
    last_execution_time_ms,  \* SQLExecutor._last_execution_time_ms
    last_rows_returned,      \* SQLExecutor._last_rows_returned
    run,                     \* the process_query calls in progress, by slot
    exec_log,                \* the last two calls made directly on the executor
    probe                    \* a text handed to the translator or the validator

vars == <<conversations, general_conversations, query_cache,
          last_execution_time_ms, last_rows_returned, run, exec_log, probe>>

engine_vars == <<conversations, general_conversations, run>>

executor_vars == <<query_cache, last_execution_time_ms, last_rows_returned>>

(***************************************************************************)
(* Dictionaries: a dict is a function whose domain holds its keys.         *)
(***************************************************************************)
EmptyDict == <<>>

\* d[k] = v
DictSet(d, k, v) == [x \in (DOMAIN d) \cup {k} |-> IF x = k THEN v ELSE d[x]]

\* d.pop(k, None)
DictPop(d, k) == [x \in (DOMAIN d) \ {k} |-> d[x]]

\* d.get(k, default)
DictGet(d, k, default) == IF k \in DOMAIN d THEN d[k] ELSE default

(***************************************************************************)
(* SQL executor (executor.py).                                             *)
(***************************************************************************)
\* the value that stands for "no table" (the call raised)
NoTable == <<-1>>

\* self.conn.execute(sql).fetchdf() on the loaded dataset when the engine
\* succeeds: the table is a function of the statement text; its rows are
\* numbers and their count varies with the text (0, 1 or 2 rows)
EngineResult(sql) == [i \in 1..(Len(sql) % 3) |-> Len(sql) + i]

\* len(self._query_cache)
CacheSize(cache) == Cardinality(DOMAIN cache)

\* faulty variant of execute: a computed result is stored whenever use_cache
\* is set, without the test of the cache size
execute_unguarded_store(cache, rows_before, sql, use_cache, engine_ok, elapsed) ==
    IF use_cache /\ sql \in DOMAIN cache
    THEN [raised |-> FALSE, df |-> cache[sql], engine_called |-> FALSE,
          query_cache |-> cache,
          last_execution_time_ms |-> 0,
          last_rows_returned |-> Len(cache[sql])]
    ELSE IF ~engine_ok
    THEN [raised |-> TRUE, df |-> NoTable, engine_called |-> TRUE,
          query_cache |-> cache,
          last_execution_time_ms |-> elapsed,
          last_rows_returned |-> rows_before]
    ELSE [raised |-> FALSE, df |-> EngineResult(sql), engine_called |-> TRUE,
          query_cache |-> IF use_cache THEN DictSet(cache, sql, EngineResult(sql))
                          ELSE cache,
          last_execution_time_ms |-> elapsed,
          last_rows_returned |-> Len(EngineResult(sql))]

\* faulty variant of execute: the lookup is timed like an engine call, so a
\* hit records the measured time instead of zero
execute_timed_hit(cache, rows_before, sql, use_cache, engine_ok, elapsed) ==
    IF use_cache /\ sql \in DOMAIN cache
    THEN [raised |-> FALSE, df |-> cache[sql], engine_called |-> FALSE,
          query_cache |-> cache,
          last_execution_time_ms |-> elapsed,
          last_rows_returned |-> Len(cache[sql])]
    ELSE IF ~engine_ok
    THEN [raised |-> TRUE, df |-> NoTable, engine_called |-> TRUE,
          query_cache |-> cache,
          last_execution_time_ms |-> elapsed,
          last_rows_returned |-> rows_before]
    ELSE [raised |-> FALSE, df |-> EngineResult(sql), engine_called |-> TRUE,
          query_cache |-> IF use_cache /\ CacheSize(cache) < CacheMaxSize
                          THEN DictSet(cache, sql, EngineResult(sql))
                          ELSE cache,
          last_execution_time_ms |-> elapsed,
          last_rows_returned |-> Len(EngineResult(sql))]

\* a variant of execute that stores the empty table for a text whose
\* engine call failed
execute_caches_failure(cache, rows_before, sql, use_cache, engine_ok, elapsed) ==
    IF use_cache /\ sql \in DOMAIN cache
    THEN [raised |-> FALSE, df |-> cache[sql], engine_called |-> FALSE,
          query_cache |-> cache,
          last_execution_time_ms |-> 0,
          last_rows_returned |-> Len(cache[sql])]
    ELSE IF ~engine_ok
    THEN [raised |-> TRUE, df |-> NoTable, engine_called |-> TRUE,
          query_cache |-> IF use_cache /\ CacheSize(cache) < CacheMaxSize
                          THEN DictSet(cache, sql, <<>>)
                          ELSE cache,
          last_execution_time_ms |-> elapsed,
          last_rows_returned |-> rows_before]
    ELSE LET df == EngineResult(sql)
         IN  [raised |-> FALSE, df |-> df, engine_called |-> TRUE,
              query_cache |-> IF use_cache /\ CacheSize(cache) < CacheMaxSize
                              THEN DictSet(cache, sql, df)
                              ELSE cache,
              last_execution_time_ms |-> elapsed,
              last_rows_returned |-> Len(df)]

\* SQLExecutor.execute: the executor's fields after the call, what it returns
\* (df) or that it raised QueryExecutionError, and whether the engine was called.
\* engine_ok and elapsed are the outcome and the measured latency of the engine call.
execute(cache, rows_before, sql, use_cache, engine_ok, elapsed) ==
    IF use_cache /\ sql \in DOMAIN cache
    THEN [raised |-> FALSE, df |-> cache[sql], engine_called |-> FALSE,
          query_cache |-> cache,
          last_execution_time_ms |-> 0,
          last_rows_returned |-> Len(cache[sql])]
    ELSE IF ~engine_ok
    THEN [raised |-> TRUE, df |-> NoTable, engine_called |-> TRUE,
          query_cache |-> cache,
          last_execution_time_ms |-> elapsed,
          last_rows_returned |-> rows_before]
    ELSE LET df == EngineResult(sql)
         IN  [raised |-> FALSE, df |-> df, engine_called |-> TRUE,
              query_cache |-> IF use_cache /\ CacheSize(cache) < CacheMaxSize
                              THEN DictSet(cache, sql, df)
                              ELSE cache,
              last_execution_time_ms |-> elapsed,
              last_rows_returned |-> Len(df)]

(***************************************************************************)
(* Orchestrator (engine.py): one process_query call advances by the steps  *)
(* between its blocking calls; run[r] holds the locals of the call in      *)
(* slot r and what it has done so far.                                     *)
(***************************************************************************)
\* the slots for process_query calls: the request handler runs one call at a time
Runs == {1}

\* the conversation ids in use; NoConv is conversation_id = None (or "")
ConvIds == {"c1"}

NoConv == "None"

\* error = None
NoError == [kind |-> "None"]

\* the result dict process_query starts from
InitResult(user_query) ==
    [query |-> user_query, sql |-> NoneText, data |-> <<>>, rows_returned |-> 0,
     signals |-> "empty", hypotheses |-> "empty", insight |-> "", error |-> NoError]

\* a slot with no call in progress
IdleRun ==
    [pc |-> "idle", user_query |-> NoneText, conversation_id |-> NoConv,
     has_data_history |-> FALSE, query_type |-> "None",
     attempt |-> 0, last_error |-> NoError, sql |-> NoneText, df |-> NoTable,
     signals |-> "empty", scored |-> "empty",
     result |-> InitResult(NoneText), terminal |-> "None",
     \* the messages list of the last completion call for a general answer
     \* or a translation
     messages |-> <<>>,
     \* what the call has done: the stages entered, in order, the last
     \* response of the SQL generation step, the text the executor was
     \* invoked on, the engine calls made, and the data track and the cache
     \* as they were when the call began
     stages |-> <<>>, last_reply |-> NoneText, executed |-> NoneText,
     engine_calls |-> 0, history0 |-> <<>>, cache0 |-> EmptyDict]

AllIdle == \A r \in DOMAIN run : run[r].pc = "idle"

\* InsightXEngine._get_history
_get_history(convs, conversation_id) ==
    IF conversation_id = NoConv THEN <<>>
    ELSE DictGet(convs, conversation_id, <<>>)

\* faulty variant of AppendTrim: pop() in place of pop(0), the newest entry
\* is the one removed
AppendTrim_pop_last(list, entry) ==
    IF Len(list) + 1 > MaxHistory THEN list ELSE Append(list, entry)

\* list.append(entry) followed by the trim: pop(0) once the list is over the cap
AppendTrim(list, entry) ==
    LET appended == Append(list, entry)
    IN  IF Len(appended) > MaxHistory THEN Tail(appended) ELSE appended

\* faulty variant of _save_to_history: the list of a conversation that has
\* none yet is not created, and the turn is lost
_save_to_history_existing_only(convs, conversation_id, user_query, sql) ==
    IF conversation_id = NoConv \/ conversation_id \notin DOMAIN convs THEN convs
    ELSE DictSet(convs, conversation_id,
                 Append(convs[conversation_id],
                        [user_query |-> user_query, sql |-> sql]))

\* InsightXEngine._save_to_history
_save_to_history(convs, conversation_id, user_query, sql) ==
    IF conversation_id = NoConv THEN convs
    ELSE DictSet(convs, conversation_id,
                 AppendTrim(DictGet(convs, conversation_id, <<>>),
                            [user_query |-> user_query, sql |-> sql]))

\* faulty variant of _save_general: without the test of conversation_id, a
\* call without a conversation records its turn under the key None
_save_general_unkeyed(gconvs, conversation_id, user_query, insight) ==
    DictSet(gconvs, conversation_id,
            AppendTrim(DictGet(gconvs, conversation_id, <<>>),
                       [user |-> user_query, assistant |-> insight]))

\* the save of _handle_general_query into the general track
_save_general(gconvs, conversation_id, user_query, insight) ==
    IF conversation_id = NoConv THEN gconvs
    ELSE DictSet(gconvs, conversation_id,
                 AppendTrim(DictGet(gconvs, conversation_id, <<>>),
                            [user |-> user_query, assistant |-> insight]))

\* process_query is called: the result dict is not built yet, the router is
\* about to be asked with the history flag computed here
Start(r, user_query, conversation_id) ==
    /\ run[r].pc = "idle"
    /\ run' = [run EXCEPT ![r] =
                 [IdleRun EXCEPT
                    !.pc = "route",
                    !.user_query = user_query,
                    !.conversation_id = conversation_id,
                    !.has_data_history =
                        /\ conversation_id # NoConv
                        /\ DictGet(conversations, conversation_id, <<>>) # <<>>,
                    !.result = InitResult(user_query),
                    !.history0 = _get_history(conversations, conversation_id),
                    !.cache0 = query_cache]]
    /\ UNCHANGED <<conversations, general_conversations, executor_vars, exec_log, probe>>

\* router.classify returns; reply is the outcome of the classifier call
Route(r, reply) ==
    /\ run[r].pc = "route"
    /\ LET query_type == classify(run[r].user_query, run[r].has_data_history, reply)
       IN  run' = [run EXCEPT ![r].query_type = query_type,
                              ![r].stages = Append(@, "route"),
                              ![r].pc = IF query_type = "general" THEN "general"
                                        ELSE "translate"]
    /\ UNCHANGED <<conversations, general_conversations, executor_vars, exec_log, probe>>

\* history[-50:]
LastTurns(history) ==
    SubSeq(history, IF Len(history) > ContextTurns THEN Len(history) - ContextTurns + 1 ELSE 1,
           Len(history))

\* the turns of a general track as user and assistant messages
RECURSIVE general_turns(_)
general_turns(history) ==
    IF history = <<>> THEN <<>>
    ELSE <<[role |-> "user", content |-> Head(history).user],
           [role |-> "assistant", content |-> Head(history).assistant]>>
         \o general_turns(Tail(history))

\* the messages of _handle_general_query: the system prompt, the last turns
\* of the conversation's general track as user and assistant messages, then
\* the question
general_messages(gconvs, conversation_id, user_query) ==
    <<[role |-> "system", content |-> "general system prompt"]>>
    \o (IF conversation_id # NoConv
        THEN general_turns(LastTurns(DictGet(gconvs, conversation_id, <<>>)))
        ELSE <<>>)
    \o <<[role |-> "user", content |-> user_query]>>

\* the turns of a data history as user and assistant messages
RECURSIVE translate_turns(_)
translate_turns(history) ==
    IF history = <<>> THEN <<>>
    ELSE <<[role |-> "user", content |-> Head(history).user_query],
           [role |-> "assistant", content |-> Head(history).sql]>>
         \o translate_turns(Tail(history))

\* faulty variant of translate_messages: the whole history is sent
\* (conversation_history in place of conversation_history[-50:])
translate_messages_whole_history(conversation_history, user_query) ==
    <<[role |-> "system", content |-> "system prompt"]>>
    \o translate_turns(conversation_history)
    \o <<[role |-> "user", content |-> user_query]>>

\* the messages of SQLTranslator.translate: the system prompt, the last
\* turns of conversation_history as user and assistant messages, then the
\* question
translate_messages(conversation_history, user_query) ==
    <<[role |-> "system", content |-> "system prompt"]>>
    \o translate_turns(LastTurns(conversation_history))
    \o <<[role |-> "user", content |-> user_query]>>

\* the text the completion service answers a general question with
GeneralReply == "Hello!"

\* faulty variant of HandleGeneral: the general turn is also appended to the
\* data track
HandleGeneral_saves_data(r, llm_ok) ==
    /\ run[r].pc = "general"
    /\ run' = [run EXCEPT ![r].result = [@ EXCEPT !.insight = IF llm_ok THEN GeneralReply
                                                              ELSE "general fallback"],
                          ![r].stages = Append(@, "general"),
                          ![r].terminal = "GENERAL_ANSWERED",
                          ![r].pc = "done"]
    /\ general_conversations' =
         IF llm_ok
         THEN _save_general(general_conversations, run[r].conversation_id,
                            run[r].user_query, GeneralReply)
         ELSE general_conversations
    /\ conversations' = _save_to_history(conversations, run[r].conversation_id,
                                         run[r].user_query, NoneText)
    /\ UNCHANGED <<executor_vars, exec_log, probe>>

\* _handle_general_query: llm_ok tells whether the completion call returned
HandleGeneral(r, llm_ok) ==
    /\ run[r].pc = "general"
    /\ run' = [run EXCEPT ![r].result = [@ EXCEPT !.insight = IF llm_ok THEN GeneralReply
                                                              ELSE "general fallback"],
                          ![r].messages = general_messages(general_conversations,
                                                           run[r].conversation_id,
                                                           run[r].user_query),
                          ![r].stages = Append(@, "general"),
                          ![r].terminal = "GENERAL_ANSWERED",
                          ![r].pc = "done"]
    /\ general_conversations' =
         IF llm_ok
         THEN _save_general(general_conversations, run[r].conversation_id,
                            run[r].user_query, GeneralReply)
         ELSE general_conversations
    /\ UNCHANGED <<conversations, executor_vars, exec_log, probe>>

\* faulty variant of RetryExhausted: range(max_retries + 2)
RetryExhausted_one_more(attempt) == attempt + 1 = MaxRetries + 2

\* translate_with_retry: the loop for attempt in range(max_retries + 1) ends
\* after the failure of the attempt numbered max_retries
RetryExhausted(attempt) == attempt + 1 = MaxRetries + 1

\* the TranslationError translate_with_retry raises on exhaustion
TranslationFailed(last_error) ==
    [kind |-> "Translation failed", attempts |-> MaxRetries + 1, last_error |-> last_error]

\* faulty variant of TranslateAttempt: when the attempts are exhausted the
\* last cleaned text is returned instead of the TranslationError being raised
TranslateAttempt_returns_last(r, reply) ==
    /\ run[r].pc = "translate"
    /\ LET t == translate(reply)
           last == IF reply = LlmRaise THEN <<>> ELSE _clean_sql(Strip(reply))
       IN  run' = [run EXCEPT ![r] =
                     IF t.ok \/ run[r].attempt + 1 = MaxRetries + 1
                     THEN [@ EXCEPT !.sql = IF t.ok THEN t.sql ELSE last,
                                    !.result = [@ EXCEPT !.sql = IF t.ok THEN t.sql ELSE last],
                                    !.stages = Append(@, "translate"),
                                    !.last_reply = reply,
                                    !.pc = "validate"]
                     ELSE [@ EXCEPT !.last_error = t.error,
                                    !.attempt = @ + 1,
                                    !.stages = Append(@, "translate"),
                                    !.last_reply = reply]]
    /\ UNCHANGED <<conversations, general_conversations, executor_vars, exec_log, probe>>

\* one iteration of translate_with_retry inside process_query; reply is the
\* outcome of the completion call of this attempt
TranslateAttempt(r, reply) ==
    /\ run[r].pc = "translate"
    /\ LET t == translate(reply)
           sent == [run EXCEPT ![r].messages =
                        translate_messages(run[r].history0, run[r].user_query)]
       IN  run' = [sent EXCEPT ![r] =
                     IF t.ok
                     THEN [@ EXCEPT !.sql = t.sql,
                                    !.result = [@ EXCEPT !.sql = t.sql],
                                    !.stages = Append(@, "translate"),
                                    !.last_reply = reply,
                                    !.pc = "validate"]
                     ELSE IF RetryExhausted(run[r].attempt)
                     THEN [@ EXCEPT !.last_error = t.error,
                                    !.result = [@ EXCEPT
                                                  !.error = TranslationFailed(t.error),
                                                  !.insight = "rephrase"],
                                    !.stages = Append(@, "translate"),
                                    !.last_reply = reply,
                                    !.terminal = "TRANSLATION_FAILED",
                                    !.pc = "done"]
                     ELSE [@ EXCEPT !.last_error = t.error,
                                    !.attempt = @ + 1,
                                    !.stages = Append(@, "translate"),
                                    !.last_reply = reply]]
    /\ UNCHANGED <<conversations, general_conversations, executor_vars, exec_log, probe>>

\* step 1.5 of process_query: the safety validator gates the statement
Validate(r) ==
    /\ run[r].pc = "validate"
    /\ run' = [run EXCEPT ![r] =
                 IF ~validate_query(run[r].sql)
                 THEN [@ EXCEPT !.result = [@ EXCEPT
                                              !.error = [kind |-> "SQL failed safety validation."],
                                              !.insight = "blocked"],
                                !.stages = Append(@, "validate"),
                                !.terminal = "VALIDATION_BLOCKED",
                                !.pc = "done"]
                 ELSE [@ EXCEPT !.stages = Append(@, "validate"),
                                !.pc = "execute"]]
    /\ UNCHANGED <<conversations, general_conversations, executor_vars, exec_log, probe>>

\* step 2 of process_query: self.executor.execute(sql)
Execute(r, engine_ok, elapsed) ==
    /\ run[r].pc = "execute"
    /\ LET x == execute(query_cache, last_rows_returned, run[r].sql, TRUE, engine_ok, elapsed)
       IN  /\ query_cache' = x.query_cache
           /\ last_execution_time_ms' = x.last_execution_time_ms
           /\ last_rows_returned' = x.last_rows_returned
           /\ run' = [run EXCEPT ![r] =
                        IF x.raised
                        THEN [@ EXCEPT !.result = [@ EXCEPT
                                                     !.error = [kind |-> "QueryExecutionError"],
                                                     !.insight = "simplify"],
                                       !.stages = Append(@, "execute"),
                                       !.executed = run[r].sql,
                                       !.engine_calls = @ + 1,
                                       !.terminal = "EXECUTION_FAILED",
                                       !.pc = "done"]
                        ELSE [@ EXCEPT !.df = x.df,
                                       !.result = [@ EXCEPT !.data = x.df,
                                                            !.rows_returned = Len(x.df)],
                                       !.stages = Append(@, "execute"),
                                       !.executed = run[r].sql,
                                       !.engine_calls = IF x.engine_called THEN @ + 1 ELSE @,
                                       !.pc = "signals"]]
    /\ UNCHANGED <<conversations, general_conversations, exec_log, probe>>

\* faulty variant of ExtractSignals: no try/except, the exception of
\* extract_signals leaves process_query
ExtractSignals_uncaught(r, fault) ==
    /\ run[r].pc = "signals"
    /\ run' = [run EXCEPT ![r] =
                 IF fault
                 THEN [@ EXCEPT !.stages = Append(@, "signals"),
                                !.pc = "raised"]
                 ELSE [@ EXCEPT !.signals = "extracted",
                                !.result = [@ EXCEPT !.signals = "extracted"],
                                !.stages = Append(@, "signals"),
                                !.pc = "score"]]
    /\ UNCHANGED <<conversations, general_conversations, executor_vars, exec_log, probe>>

\* step 3 of process_query: extract_signals returns ("extracted" stands for
\* its result) or raises, which leaves the empty set
ExtractSignals(r, fault) ==
    /\ run[r].pc = "signals"
    /\ run' = [run EXCEPT ![r] =
                 IF fault
                 THEN [@ EXCEPT !.signals = "empty",
                                !.stages = Append(@, "signals"),
                                !.pc = "score"]
                 ELSE [@ EXCEPT !.signals = "extracted",
                                !.result = [@ EXCEPT !.signals = "extracted"],
                                !.stages = Append(@, "signals"),
                                !.pc = "score"]]
    /\ UNCHANGED <<conversations, general_conversations, executor_vars, exec_log, probe>>

\* faulty variant of ScoreHypotheses: an exception of score_hypotheses ends
\* the call the way an execution error does
ScoreHypotheses_fatal(r, fault) ==
    /\ run[r].pc = "score"
    /\ run' = [run EXCEPT ![r] =
                 IF fault
                 THEN [@ EXCEPT !.scored = "empty",
                                !.result = [@ EXCEPT !.error = [kind |-> "Exception"]],
                                !.stages = Append(@, "score"),
                                !.terminal = "EXECUTION_FAILED",
                                !.pc = "done"]
                 ELSE [@ EXCEPT !.scored = "scored",
                                !.result = [@ EXCEPT !.hypotheses = "scored"],
                                !.stages = Append(@, "score"),
                                !.pc = "insight"]]
    /\ UNCHANGED <<conversations, general_conversations, executor_vars, exec_log, probe>>

\* step 4 of process_query: score_hypotheses returns ("scored" stands for
\* its result) or raises, which leaves the empty ranking
ScoreHypotheses(r, fault) ==
    /\ run[r].pc = "score"
    /\ run' = [run EXCEPT ![r] =
                 IF fault
                 THEN [@ EXCEPT !.scored = "empty",
                                !.stages = Append(@, "score"),
                                !.pc = "insight"]
                 ELSE [@ EXCEPT !.scored = "scored",
                                !.result = [@ EXCEPT !.hypotheses = "scored"],
                                !.stages = Append(@, "score"),
                                !.pc = "insight"]]
    /\ UNCHANGED <<conversations, general_conversations, executor_vars, exec_log, probe>>

\* InsightEngine.generate_fallback_insight: a fixed sentence for the empty
\* table, else the summary of the table ("fallback summary" stands for it)
generate_fallback_insight(df) ==
    IF df = <<>> THEN "no results" ELSE "fallback summary"

\* faulty variant of GenerateInsight: InsightGenerationError is not caught,
\* the exception leaves process_query before the turn is saved
GenerateInsight_aborts(r, llm_ok) ==
    /\ run[r].pc = "insight"
    /\ IF llm_ok
       THEN /\ run' = [run EXCEPT ![r].result = [@ EXCEPT !.insight = "insight"],
                                  ![r].stages = Append(@, "insight"),
                                  ![r].terminal = "SUCCESS",
                                  ![r].pc = "done"]
            /\ conversations' = _save_to_history(conversations, run[r].conversation_id,
                                                 run[r].user_query, run[r].sql)
       ELSE /\ run' = [run EXCEPT ![r].stages = Append(@, "insight"),
                                  ![r].pc = "raised"]
            /\ UNCHANGED conversations
    /\ UNCHANGED <<general_conversations, executor_vars, exec_log, probe>>

\* step 5 of process_query and its end: generate_insight returns or raises
\* InsightGenerationError (then the fallback summary is used), and the turn
\* is saved to the data track
GenerateInsight(r, llm_ok) ==
    /\ run[r].pc = "insight"
    /\ run' = [run EXCEPT ![r].result = [@ EXCEPT !.insight = IF llm_ok THEN "insight"
                                                   ELSE generate_fallback_insight(run[r].df)],
                          ![r].stages = Append(@, "insight"),
                          ![r].terminal = "SUCCESS",
                          ![r].pc = "done"]
    /\ conversations' = _save_to_history(conversations, run[r].conversation_id,
                                         run[r].user_query, run[r].sql)
    /\ UNCHANGED <<general_conversations, executor_vars, exec_log, probe>>

\* the caller has the result dict: the slot is free again
Return(r) ==
    /\ run[r].pc = "done"
    /\ run' = [run EXCEPT ![r] = IdleRun]
    /\ UNCHANGED <<conversations, general_conversations, executor_vars, exec_log, probe>>

\* a variant of clear_tracks that leaves the general track of the
\* conversation in place
clear_tracks_data_only(conversation_id) ==
    /\ conversations' = IF conversation_id # NoConv
                        THEN DictPop(conversations, conversation_id)
                        ELSE EmptyDict
    /\ general_conversations' = IF conversation_id # NoConv
                                THEN general_conversations
                                ELSE EmptyDict

\* the body of clear_conversation: pop(conversation_id, None) on both
\* dicts, or clear() on both for an id that is None or empty
clear_tracks(conversation_id) ==
    /\ conversations' = IF conversation_id # NoConv
                        THEN DictPop(conversations, conversation_id)
                        ELSE EmptyDict
    /\ general_conversations' = IF conversation_id # NoConv
                                THEN DictPop(general_conversations, conversation_id)
                                ELSE EmptyDict

\* InsightXEngine.clear_conversation
clear_conversation(conversation_id) ==
    /\ clear_tracks(conversation_id)
    /\ UNCHANGED <<executor_vars, run, exec_log, probe>>

(***************************************************************************)
(* The inputs of the orchestrator: user questions, what the classifier     *)
(* call and the SQL generation call answer, and the engine's behaviour.    *)
(***************************************************************************)
QGreeting == <<"h", "e", "l", "l", "o">>

QData == <<"f", "a", "i", "l", "u", "r", "e", " ", "r", "a", "t", "e", " ", "b", "y", " ", "b", "a", "n", "k", "?">>

QFollowup == <<"w", "h", "a", "t", " ", "a", "b", "o", "u", "t", " ", "i", "t">>

Queries == {QGreeting, QData, QFollowup}

ValidReply == <<BT, BT, BT, "s", "q", "l", "\n">> \o <<"S", "E", "L", "E", "C", "T", " ", "1", " ", "F", "R", "O", "M", " ", "t", "r", "a", "n", "s", "a", "c", "t", "i", "o", "n", "s">> \o <<"\n", BT, BT, BT>>

DropReply == <<"D", "R", "O", "P", " ", "T", "A", "B", "L", "E", " ", "t", "r", "a", "n", "s", "a", "c", "t", "i", "o", "n", "s">>

BareSelectReply == <<"S", "E", "L", "E", "C", "T", " ", "1">>

FenceReply == <<BT, BT, BT>>

TranslatorReplies == {ValidReply, DropReply, BareSelectReply, FenceReply, LlmRaise}

ClassifierReplies == {<<"D", "A", "T", "A">>, <<"g", "e", "n", "e", "r", "a", "l">>, LlmRaise}

Elapsed == 1..MaxElapsed

\* no call has been made directly on the executor, no text has been probed
NoProbe == [op |-> "None"]

Init ==
    /\ conversations = EmptyDict
    /\ general_conversations = EmptyDict
    /\ query_cache = EmptyDict
    /\ last_execution_time_ms = 0
    /\ last_rows_returned = 0
    /\ run = [r \in Runs |-> IdleRun]
    /\ exec_log = <<>>
    /\ probe = NoProbe

Next ==
    \/ \E r \in Runs, user_query \in Queries, conversation_id \in ConvIds \cup {NoConv} :
          AllIdle /\ Start(r, user_query, conversation_id)
    \/ \E r \in Runs, reply \in ClassifierReplies : Route(r, reply)
    \/ \E r \in Runs, llm_ok \in BOOLEAN : HandleGeneral(r, llm_ok)
    \/ \E r \in Runs, reply \in TranslatorReplies : TranslateAttempt(r, reply)
    \/ \E r \in Runs : Validate(r)
    \/ \E r \in Runs, engine_ok \in BOOLEAN, elapsed \in Elapsed : Execute(r, engine_ok, elapsed)
    \/ \E r \in Runs, fault \in BOOLEAN : ExtractSignals(r, fault)
    \/ \E r \in Runs, fault \in BOOLEAN : ScoreHypotheses(r, fault)
    \/ \E r \in Runs, llm_ok \in BOOLEAN : GenerateInsight(r, llm_ok)
    \/ \E r \in Runs : Return(r)
    \/ \E conversation_id \in ConvIds \cup {NoConv} :
          AllIdle /\ clear_conversation(conversation_id)

Spec == Init /\ [][Next]_vars

(***************************************************************************)
(* The executor driven directly: execute and clear_cache in any order.     *)
(* exec_log keeps the last two calls with what they were given, what they  *)
(* returned and the cache they found.                                      *)
(***************************************************************************)
ExecTexts == {<<"S", "E", "L", "E", "C", "T", " ", "1">>,
              <<"S", "E", "L", "E", "C", "T", " ", "2", "2">>,
              <<"S", "E", "L", "E", "C", "T", " ", "3", "3", "3">>,
              <<"S", "E", "L", "E", "C", "T", " ", "4", "4", "4", "4">>}

\* the last two entries of a log
LastTwo(log) == IF Len(log) > 2 THEN Tail(log) ELSE log

\* a call of SQLExecutor.execute from outside the orchestrator
ExecCall(sql, use_cache, engine_ok, elapsed) ==
    LET x == execute(query_cache, last_rows_returned, sql, use_cache, engine_ok, elapsed)
    IN  /\ query_cache' = x.query_cache
        /\ last_execution_time_ms' = x.last_execution_time_ms
        /\ last_rows_returned' = x.last_rows_returned
        /\ exec_log' = LastTwo(Append(exec_log,
                          [op |-> "execute", sql |-> sql, use_cache |-> use_cache,
                           raised |-> x.raised, df |-> x.df,
                           engine_called |-> x.engine_called,
                           cache_before |-> query_cache]))
        /\ UNCHANGED <<engine_vars, probe>>

\* SQLExecutor.clear_cache
clear_cache ==
    /\ query_cache' = EmptyDict
    /\ exec_log' = LastTwo(Append(exec_log,
                      [op |-> "clear_cache", sql |-> NoneText, use_cache |-> FALSE,
                       raised |-> FALSE, df |-> NoTable, engine_called |-> FALSE,
                       cache_before |-> query_cache]))
    /\ UNCHANGED <<last_execution_time_ms, last_rows_returned, engine_vars, probe>>

NextExec ==
    \/ \E sql \in ExecTexts, use_cache \in BOOLEAN, engine_ok \in BOOLEAN, elapsed \in Elapsed :
          ExecCall(sql, use_cache, engine_ok, elapsed)
    \/ clear_cache

SpecExec == Init /\ [][NextExec]_vars

(***************************************************************************)
(* The text functions alone: a text put together from fragments is handed  *)
(* to SQLTranslator.translate (as the completion service's response) or to *)
(* DataManager.validate_query.                                             *)
(***************************************************************************)
Fragments ==
    { <<"S", "E", "L", "E", "C", "T", " ">>,
      <<"w", "i", "t", "h", " ">>,
      <<"t", "r", "a", "n", "s", "a", "c", "t", "i", "o", "n", "s">>,
      <<"D", "R", "O", "P">>,
      <<"d", "e", "l", "e", "t", "e">>,
      <<" ">>,
      <<";">>,
      <<"u", "p", "d", "a", "t", "e", "d", "_", "a", "t">>,
      <<"x">>,
      <<"\n">>,
      <<BT, BT, BT>>,
      <<";", "\n", BT, BT, BT>>,
      <<"_", "l", "i", "m", "i", "t">>,
      <<" ", "L", "I", "M", "I", "T", " ", "5">> }

RECURSIVE Concat(_)
Concat(parts) == IF parts = <<>> THEN <<>> ELSE Head(parts) \o Concat(Tail(parts))

\* the texts made of at most MaxFrags fragments
RawTexts ==
    UNION { {Concat(parts) : parts \in [1..n -> Fragments]} : n \in 0..MaxFrags }

InitSql ==
    /\ conversations = EmptyDict
    /\ general_conversations = EmptyDict
    /\ query_cache = EmptyDict
    /\ last_execution_time_ms = 0
    /\ last_rows_returned = 0
    /\ run = [r \in Runs |-> IdleRun]
    /\ exec_log = <<>>
    /\ \E text \in RawTexts : probe = [op |-> "input", text |-> text]

\* SQLTranslator.translate with the completion service answering probe.text
ProbeTranslate ==
    /\ probe.op = "input"
    /\ LET t == translate(probe.text)
       IN  probe' = [op |-> "translate", text |-> probe.text,
                     ok |-> t.ok, sql |-> t.sql, error |-> t.error]
    /\ UNCHANGED <<engine_vars, executor_vars, exec_log>>

\* DataManager.validate_query(probe.text)
ProbeValidateQuery ==
    /\ probe.op = "input"
    /\ probe' = [op |-> "validate_query", text |-> probe.text,
                 result |-> validate_query(probe.text)]
    /\ UNCHANGED <<engine_vars, executor_vars, exec_log>>

NextSql == ProbeTranslate \/ ProbeValidateQuery

SpecSql == InitSql /\ [][NextSql]_vars

\* the steps of a call that wait on nothing but the services and the engine
Step(r) ==
    \/ \E reply \in ClassifierReplies : Route(r, reply)
    \/ \E llm_ok \in BOOLEAN : HandleGeneral(r, llm_ok)
    \/ \E reply \in TranslatorReplies : TranslateAttempt(r, reply)
    \/ Validate(r)
    \/ \E engine_ok \in BOOLEAN, elapsed \in Elapsed : Execute(r, engine_ok, elapsed)
    \/ \E fault \in BOOLEAN : ExtractSignals(r, fault)
    \/ \E fault \in BOOLEAN : ScoreHypotheses(r, fault)
    \/ \E llm_ok \in BOOLEAN : GenerateInsight(r, llm_ok)

\* every call to a service or to the engine returns or raises: a call in
\* progress takes its next step
SpecFair == Init /\ [][Next]_vars /\ \A r \in Runs : WF_vars(Step(r))

(***************************************************************************)
(* Overlapping calls.  One engine (and its one executor) serves every      *)
(* caller; nothing in the engine or the executor takes a lock, so the      *)
(* statements of two calls in progress interleave.  The calls of this      *)
(* specification take the stages of process_query as above, with execute   *)
(* and _save_to_history taken statement by statement.                      *)
(***************************************************************************)
\* the calls that can be in progress together
ConcRuns == {1, 2}

InitConc ==
    /\ conversations = EmptyDict
    /\ general_conversations = EmptyDict
    /\ query_cache = EmptyDict
    /\ last_execution_time_ms = 0
    /\ last_rows_returned = 0
    /\ run = [r \in ConcRuns |-> IdleRun]
    /\ exec_log = <<>>
    /\ probe = NoProbe

\* execute, the cache lookup: a hit sets the statistics and returns the
\* copy; a miss takes the start time and enters self.conn.execute(sql), and
\* the call is in progress while pc is "exec_engine"
ExecLookup(r) ==
    /\ run[r].pc = "execute"
    /\ IF run[r].sql \in DOMAIN query_cache
       THEN /\ last_rows_returned' = Len(query_cache[run[r].sql])
            /\ last_execution_time_ms' = 0
            /\ run' = [run EXCEPT ![r].df = query_cache[run[r].sql],
                                  ![r].result = [@ EXCEPT
                                       !.data = query_cache[run[r].sql],
                                       !.rows_returned = Len(query_cache[run[r].sql])],
                                  ![r].stages = Append(@, "execute"),
                                  ![r].executed = run[r].sql,
                                  ![r].pc = "signals"]
       ELSE /\ run' = [run EXCEPT ![r].stages = Append(@, "execute"),
                                  ![r].executed = run[r].sql,
                                  ![r].pc = "exec_engine"]
            /\ UNCHANGED <<last_rows_returned, last_execution_time_ms>>
    /\ UNCHANGED <<conversations, general_conversations, query_cache, exec_log, probe>>

\* execute, the engine call returns or raises, and the statistics of a miss
ExecEngine(r, engine_ok, elapsed) ==
    /\ run[r].pc = "exec_engine"
    /\ last_execution_time_ms' = elapsed
    /\ IF engine_ok
       THEN /\ last_rows_returned' = Len(EngineResult(run[r].sql))
            /\ run' = [run EXCEPT ![r].df = EngineResult(run[r].sql),
                                  ![r].engine_calls = @ + 1,
                                  ![r].pc = "exec_check"]
       ELSE /\ UNCHANGED last_rows_returned
            /\ run' = [run EXCEPT ![r].result = [@ EXCEPT
                                       !.error = [kind |-> "QueryExecutionError"],
                                       !.insight = "simplify"],
                                  ![r].engine_calls = @ + 1,
                                  ![r].terminal = "EXECUTION_FAILED",
                                  ![r].pc = "done"]
    /\ UNCHANGED <<conversations, general_conversations, query_cache, exec_log, probe>>

\* execute, the test of the store guard: len(self._query_cache) < max
ExecStoreCheck(r) ==
    /\ run[r].pc = "exec_check"
    /\ run' = [run EXCEPT ![r] =
                 IF CacheSize(query_cache) < CacheMaxSize
                 THEN [@ EXCEPT !.pc = "exec_store"]
                 ELSE [@ EXCEPT !.result = [@ EXCEPT !.data = run[r].df,
                                                     !.rows_returned = Len(run[r].df)],
                                !.pc = "signals"]]
    /\ UNCHANGED <<conversations, general_conversations, executor_vars, exec_log, probe>>

\* execute, the store: self._query_cache[sql] = df.copy(), and the return
ExecStore(r) ==
    /\ run[r].pc = "exec_store"
    /\ query_cache' = DictSet(query_cache, run[r].sql, run[r].df)
    /\ run' = [run EXCEPT ![r].result = [@ EXCEPT !.data = run[r].df,
                                                  !.rows_returned = Len(run[r].df)],
                          ![r].pc = "signals"]
    /\ UNCHANGED <<conversations, general_conversations, last_execution_time_ms,
                   last_rows_returned, exec_log, probe>>

\* step 5 of process_query up to the call of _save_to_history
InsightReturns(r, llm_ok) ==
    /\ run[r].pc = "insight"
    /\ run' = [run EXCEPT ![r].result = [@ EXCEPT !.insight = IF llm_ok THEN "insight"
                                                   ELSE generate_fallback_insight(run[r].df)],
                          ![r].stages = Append(@, "insight"),
                          ![r].pc = "save_check"]
    /\ UNCHANGED <<conversations, general_conversations, executor_vars, exec_log, probe>>

\* _save_to_history, the two tests: no conversation id, and
\* conversation_id not in self._conversations
SaveCheck(r) ==
    /\ run[r].pc = "save_check"
    /\ run' = [run EXCEPT ![r] =
                 IF run[r].conversation_id = NoConv
                 THEN [@ EXCEPT !.terminal = "SUCCESS", !.pc = "done"]
                 ELSE IF run[r].conversation_id \notin DOMAIN conversations
                 THEN [@ EXCEPT !.pc = "save_init"]
                 ELSE [@ EXCEPT !.pc = "save_append"]]
    /\ UNCHANGED <<conversations, general_conversations, executor_vars, exec_log, probe>>

\* _save_to_history: self._conversations[conversation_id] = []
SaveInit(r) ==
    /\ run[r].pc = "save_init"
    /\ conversations' = DictSet(conversations, run[r].conversation_id, <<>>)
    /\ run' = [run EXCEPT ![r].pc = "save_append"]
    /\ UNCHANGED <<general_conversations, executor_vars, exec_log, probe>>

\* _save_to_history: self._conversations[conversation_id].append({...})
SaveAppend(r) ==
    /\ run[r].pc = "save_append"
    /\ run[r].conversation_id \in DOMAIN conversations
    /\ conversations' = DictSet(conversations, run[r].conversation_id,
                                Append(conversations[run[r].conversation_id],
                                       [user_query |-> run[r].user_query,
                                        sql |-> run[r].sql]))
    /\ run' = [run EXCEPT ![r].pc = "save_len"]
    /\ UNCHANGED <<general_conversations, executor_vars, exec_log, probe>>

\* _save_to_history, the test of the trim: len(...) > self._max_history
SaveLen(r) ==
    /\ run[r].pc = "save_len"
    /\ run[r].conversation_id \in DOMAIN conversations
    /\ run' = [run EXCEPT ![r] =
                 IF Len(conversations[run[r].conversation_id]) > MaxHistory
                 THEN [@ EXCEPT !.pc = "save_pop"]
                 ELSE [@ EXCEPT !.terminal = "SUCCESS", !.pc = "done"]]
    /\ UNCHANGED <<conversations, general_conversations, executor_vars, exec_log, probe>>

\* _save_to_history: self._conversations[conversation_id].pop(0), and the
\* return of process_query
SavePop(r) ==
    /\ run[r].pc = "save_pop"
    /\ run[r].conversation_id \in DOMAIN conversations
    /\ conversations[run[r].conversation_id] # <<>>
    /\ conversations' = DictSet(conversations, run[r].conversation_id,
                                Tail(conversations[run[r].conversation_id]))
    /\ run' = [run EXCEPT ![r].terminal = "SUCCESS", ![r].pc = "done"]
    /\ UNCHANGED <<general_conversations, executor_vars, exec_log, probe>>

NextConc ==
    \/ \E r \in ConcRuns, conversation_id \in ConvIds : Start(r, QData, conversation_id)
    \/ \E r \in ConcRuns : Route(r, LlmRaise)
    \/ \E r \in ConcRuns : TranslateAttempt(r, ValidReply)
    \/ \E r \in ConcRuns : Validate(r)
    \/ \E r \in ConcRuns : ExecLookup(r)
    \/ \E r \in ConcRuns, engine_ok \in BOOLEAN : ExecEngine(r, engine_ok, 1)
    \/ \E r \in ConcRuns : ExecStoreCheck(r)
    \/ \E r \in ConcRuns : ExecStore(r)
    \/ \E r \in ConcRuns : ExtractSignals(r, FALSE)
    \/ \E r \in ConcRuns : ScoreHypotheses(r, FALSE)
    \/ \E r \in ConcRuns : InsightReturns(r, TRUE)
    \/ \E r \in ConcRuns : SaveCheck(r)
    \/ \E r \in ConcRuns : SaveInit(r)
    \/ \E r \in ConcRuns : SaveAppend(r)
    \/ \E r \in ConcRuns : SaveLen(r)
    \/ \E r \in ConcRuns : SavePop(r)
    \/ \E r \in ConcRuns : Return(r)

SpecConc == InitConc /\ [][NextConc]_vars

\* a call of SQLExecutor.execute(sql) from outside the orchestrator, taken
\* statement by statement
ExecCallStart(r, sql) ==
    /\ run[r].pc = "idle"
    /\ run' = [run EXCEPT ![r] = [IdleRun EXCEPT !.sql = sql, !.pc = "execute"]]
    /\ UNCHANGED <<conversations, general_conversations, executor_vars, exec_log, probe>>

\* execute has returned its DataFrame or raised QueryExecutionError
ExecCallReturn(r) ==
    /\ run[r].pc \in {"signals", "done"}
    /\ run' = [run EXCEPT ![r] = IdleRun]
    /\ UNCHANGED <<conversations, general_conversations, executor_vars, exec_log, probe>>

NextConcExec ==
    \/ \E r \in ConcRuns, sql \in ExecTexts : ExecCallStart(r, sql)
    \/ \E r \in ConcRuns : ExecLookup(r)
    \/ \E r \in ConcRuns, engine_ok \in BOOLEAN, elapsed \in Elapsed :
          ExecEngine(r, engine_ok, elapsed)
    \/ \E r \in ConcRuns : ExecStoreCheck(r)
    \/ \E r \in ConcRuns : ExecStore(r)
    \/ \E r \in ConcRuns : ExecCallReturn(r)

SpecConcExec == InitConc /\ [][NextConcExec]_vars

(***************************************************************************)
(* The router on its own: classify applied to a text and a history flag,   *)
(* up to MaxCalls times on the same inputs, the completion service         *)
(* answering each call as it likes.                                        *)
(***************************************************************************)
\* faulty variant of _llm_classify_called: the completion service is asked
\* before the keyword result is looked at
_llm_classify_called_early(query_lower, keyword_result, has_data_history) ==
    ~(has_data_history /\ _is_followup(query_lower))

\* whether classify reaches its last line, the call of _llm_classify
_llm_classify_called(query_lower, keyword_result, has_data_history) ==
    /\ ~(has_data_history /\ _is_followup(query_lower))
    /\ keyword_result = "None"

\* the words the probed texts are made of
RouterWords ==
    { <<"H", "e", "l", "l", "o">>,
      <<"c", "o", "u", "n", "t">>,
      <<"b", "a", "n", "k">>,
      <<"t", "h", "o", "s", "e">>,
      <<"w", "i", "t", "h">>,
      <<"r", "a", "t", "e", "s">>,
      <<"w", "h", "a", "t", " ", "a", "b", "o", "u", "t">> }

\* nine words that hit no phrase of the three sets
Filler == <<"a", " ", "b", " ", "c", " ", "d", " ", "e", " ", "f", " ", "g", " ", "h", " ", "i">>

RECURSIVE JoinWords(_)
JoinWords(ws) ==
    IF ws = <<>> THEN <<>>
    ELSE IF Len(ws) = 1 THEN Head(ws)
    ELSE Head(ws) \o <<" ">> \o JoinWords(Tail(ws))

\* the texts: Filler or nothing, then at most MaxWords words, then "?" or
\* nothing
RouterTexts ==
    { JoinWords(SelectSeq(<<prefix, JoinWords(ws)>>, LAMBDA w : w # <<>>)) \o mark :
        prefix \in {<<>>, Filler},
        ws \in UNION { [1..n -> RouterWords] : n \in 0..MaxWords },
        mark \in {<<>>, <<"?">>} }

\* the answers of the completion service to the classification prompt
RouterReplies == ClassifierReplies \cup { <<" ", "U", "n", "s", "u", "r", "e", "\n">> }

InitRouter ==
    /\ conversations = EmptyDict
    /\ general_conversations = EmptyDict
    /\ query_cache = EmptyDict
    /\ last_execution_time_ms = 0
    /\ last_rows_returned = 0
    /\ run = [r \in Runs |-> IdleRun]
    /\ exec_log = <<>>
    /\ \E text \in RouterTexts, has_data_history \in BOOLEAN :
          probe = [op |-> "classify", text |-> text,
                   has_data_history |-> has_data_history, calls |-> <<>>]

\* QueryRouter.classify(probe.text, probe.has_data_history); the reply of the
\* completion service is recorded when the service was called
ProbeClassify ==
    /\ probe.op = "classify"
    /\ Len(probe.calls) < MaxCalls
    /\ \E query_lower \in {Strip(StrLower(probe.text))} :
       \E keyword_result \in {_keyword_classify(query_lower)} :
       \E reply \in RouterReplies :
       \E llm_called \in {_llm_classify_called(query_lower, keyword_result,
                                               probe.has_data_history)} :
          probe' = [probe EXCEPT !.calls = Append(@,
                      [verdict |-> ClassifyFrom(query_lower, keyword_result,
                                                probe.has_data_history, reply),
                       llm_called |-> llm_called,
                       reply |-> IF llm_called THEN reply ELSE NoneText])]
    /\ UNCHANGED <<engine_vars, executor_vars, exec_log>>

NextRouter == ProbeClassify

SpecRouter == InitRouter /\ [][NextRouter]_vars

(***************************************************************************)
(* Python floats.  A float is an IEEE 754 double: m * 2^e with m below     *)
(* 2^53.  m is kept as its digits to the base 1024, lowest first and       *)
(* without leading zeros (the integers of the model are too narrow for     *)
(* it); every operation yields the exact result rounded to the nearest     *)
(* double, ties to even.                                                   *)
(***************************************************************************)
RECURSIVE Pow2(_)
Pow2(k) == IF k = 0 THEN 1 ELSE 2 * Pow2(k - 1)

RECURSIVE BigFromNat(_)
BigFromNat(n) == IF n = 0 THEN <<>> ELSE <<n % 1024>> \o BigFromNat(n \div 1024)

RECURSIVE BigToNat(_)
BigToNat(b) == IF b = <<>> THEN 0 ELSE Head(b) + (1024 * BigToNat(Tail(b)))

\* b without its zeros at the high end
BigTrim(b) ==
    IF \A i \in 1..Len(b) : b[i] = 0 THEN <<>>
    ELSE SubSeq(b, 1, CHOOSE i \in 1..Len(b) :
                         b[i] # 0 /\ \A j \in (i + 1)..Len(b) : b[j] = 0)

\* the digits of the number whose digit sums, not yet carried, are cols
RECURSIVE BigCarry(_, _, _)
BigCarry(cols, i, carry) ==
    IF i > Len(cols)
    THEN IF carry = 0 THEN <<>> ELSE <<carry % 1024>> \o BigCarry(cols, i, (carry \div 1024))
    ELSE <<(cols[i] + carry) % 1024>> \o BigCarry(cols, i + 1, (cols[i] + carry) \div 1024)

BigAdd(a, b) ==
    BigTrim(BigCarry([i \in 1..(IF Len(a) > Len(b) THEN Len(a) ELSE Len(b)) |->
                        (IF i <= Len(a) THEN a[i] ELSE 0)
                        + (IF i <= Len(b) THEN b[i] ELSE 0)], 1, 0))

\* the sum of a[i] * b[k + 1 - i] over the i from 1 to upto
RECURSIVE BigColumn(_, _, _, _)
BigColumn(a, b, k, upto) ==
    IF upto = 0 THEN 0
    ELSE (IF upto <= Len(a) /\ k + 1 - upto >= 1 /\ k + 1 - upto <= Len(b)
          THEN a[upto] * b[k + 1 - upto] ELSE 0)
         + BigColumn(a, b, k, upto - 1)

BigMul(a, b) ==
    IF a = <<>> \/ b = <<>> THEN <<>>
    ELSE BigTrim(BigCarry([k \in 1..(Len(a) + Len(b) - 1) |-> BigColumn(a, b, k, k)], 1, 0))

\* a * 2^s
BigShl(a, s) == BigMul(a, [i \in 1..(s \div 10) |-> 0] \o <<Pow2(s % 10)>>)

\* a \div 2^s
BigShr(a, s) ==
    BigTrim([k \in 1..(Len(a) - (s \div 10)) |->
               (a[k + (s \div 10)] \div Pow2(s % 10))
               + (IF k + (s \div 10) < Len(a)
                  THEN (a[k + (s \div 10) + 1] % Pow2(s % 10)) * Pow2(10 - (s % 10))
                  ELSE 0)])

\* the binary digit i of a, the lowest being digit 1
BitAt(a, i) ==
    IF i < 1 \/ ((i - 1) \div 10) + 1 > Len(a) THEN 0
    ELSE (a[((i - 1) \div 10) + 1] \div Pow2((i - 1) % 10)) % 2

\* the number of binary digits of a
BitLen(a) ==
    IF a = <<>> THEN 0
    ELSE 10 * (Len(a) - 1) + CHOOSE n \in 1..10 : Pow2(n - 1) <= a[Len(a)] /\ a[Len(a)] < Pow2(n)

\* one of the s lowest binary digits of a is set
LowBits(a, s) == \E i \in 1..s : BitAt(a, i) = 1

\* the digits 1..i of the quotient of a by the small number n, and the
\* remainder, given the remainder r left by the digits above i
RECURSIVE BigDivFrom(_, _, _, _)
BigDivFrom(a, n, i, r) ==
    IF i = 0 THEN [q |-> <<>>, r |-> r]
    ELSE LET low == BigDivFrom(a, n, i - 1, (1024 * r + a[i]) % n)
         IN  [q |-> low.q \o <<(1024 * r + a[i]) \div n>>, r |-> low.r]

\* the exact value (m + f) * 2^e, f = 0 or (sticky) some fraction strictly
\* between 0 and 1, rounded to the nearest double, ties to even
RoundToDouble(m, e, sticky) ==
    IF BitLen(m) <= 53 THEN [m |-> m, e |-> e]
    ELSE LET drop == BitLen(m) - 53
             q == BigShr(m, drop)
             up == /\ BitAt(m, drop) = 1
                   /\ (sticky \/ LowBits(m, drop - 1) \/ BitAt(q, 1) = 1)
             r == IF up THEN BigAdd(q, <<1>>) ELSE q
         IN  IF BitLen(r) > 53 THEN [m |-> BigShr(r, 1), e |-> e + drop + 1]
             ELSE [m |-> r, e |-> e + drop]

FloatZero == [m |-> <<>>, e |-> 0]

\* k / n for two small integers, k >= 0 and n > 0: Python's true division,
\* and also the value of a decimal literal such as 0.7 (k = 7, n = 10)
FloatDiv(k, n) ==
    IF k = 0 THEN FloatZero
    ELSE LET shifted == BigShl(BigFromNat(k), 70)
             d == BigDivFrom(shifted, n, Len(shifted), 0)
         IN  RoundToDouble(BigTrim(d.q), -70, d.r # 0)

FloatMul(x, y) ==
    IF x.m = <<>> \/ y.m = <<>> THEN FloatZero
    ELSE RoundToDouble(BigMul(x.m, y.m), x.e + y.e, FALSE)

FloatAdd(x, y) ==
    IF x.m = <<>> THEN y
    ELSE IF y.m = <<>> THEN x
    ELSE LET e == IF x.e < y.e THEN x.e ELSE y.e
         IN  RoundToDouble(BigAdd(BigShl(x.m, x.e - e), BigShl(y.m, y.e - e)), e, FALSE)

\* round(x, 3) for 0 <= x <= 1, as the number of thousandths of the result:
\* the multiple of 0.001 nearest to the exact value of x, ties to even
PyRound3(x) ==
    IF x.m = <<>> THEN 0
    ELSE LET n == BigMul(x.m, <<1000>>)
             s == 0 - x.e
             q == BigToNat(BigShr(n, s))
             up == /\ BitAt(n, s) = 1
                   /\ (LowBits(n, s - 1) \/ (q % 2) = 1)
         IN  IF up THEN q + 1 ELSE q

(***************************************************************************)
(* Hypothesis scoring (analytics.py).  A confidence is a float with three  *)
(* decimals; it is kept as its number of thousandths.                      *)
(***************************************************************************)
\* a variant of hypothesis_score with the two weights exchanged
hypothesis_score_swapped(h, signals) ==
    LET req_score == FloatDiv(Cardinality(h.required \cap signals), Cardinality(h.required))
        sup_score == IF h.supporting # {}
                     THEN FloatDiv(Cardinality(h.supporting \cap signals),
                                   Cardinality(h.supporting))
                     ELSE FloatZero
    IN  PyRound3(FloatAdd(FloatMul(FloatDiv(3, 10), req_score),
                          FloatMul(FloatDiv(7, 10), sup_score)))

\* a variant of hypothesis_score that counts the supporting signals which
\* were not observed
hypothesis_score_missing(h, signals) ==
    LET req_score == FloatDiv(Cardinality(h.required \cap signals), Cardinality(h.required))
        sup_score == IF h.supporting # {}
                     THEN FloatDiv(Cardinality(h.supporting \ signals),
                                   Cardinality(h.supporting))
                     ELSE FloatZero
    IN  PyRound3(FloatAdd(FloatMul(FloatDiv(7, 10), req_score),
                          FloatMul(FloatDiv(3, 10), sup_score)))

\* score_hypotheses, the body of the loop for a hypothesis with required
\* signals: round(0.7 * req_score + 0.3 * sup_score, 3)
hypothesis_score(h, signals) ==
    LET req_score == FloatDiv(Cardinality(h.required \cap signals), Cardinality(h.required))
        sup_score == IF h.supporting # {}
                     THEN FloatDiv(Cardinality(h.supporting \cap signals),
                                   Cardinality(h.supporting))
                     ELSE FloatZero
    IN  PyRound3(FloatAdd(FloatMul(FloatDiv(7, 10), req_score),
                          FloatMul(FloatDiv(3, 10), sup_score)))

\* a variant of scored_list that drops the hypotheses of confidence 0
\* instead of those without required signals
RECURSIVE scored_list_drops_zero(_, _)
scored_list_drops_zero(hypotheses, signals) ==
    IF hypotheses = <<>> THEN <<>>
    ELSE LET h == Head(hypotheses)
             score == IF h.required = {} THEN 0 ELSE hypothesis_score(h, signals)
         IN  IF h.required # {} /\ score = 0
             THEN scored_list_drops_zero(Tail(hypotheses), signals)
             ELSE <<[h |-> h, score |-> score]>>
                  \o scored_list_drops_zero(Tail(hypotheses), signals)

\* score_hypotheses, the loop: a hypothesis without required signals is
\* skipped
RECURSIVE scored_list(_, _)
scored_list(hypotheses, signals) ==
    IF hypotheses = <<>> THEN <<>>
    ELSE IF Head(hypotheses).required = {} THEN scored_list(Tail(hypotheses), signals)
    ELSE <<[h |-> Head(hypotheses), score |-> hypothesis_score(Head(hypotheses), signals)]>>
         \o scored_list(Tail(hypotheses), signals)

\* a variant of InsertDesc that puts an entry before the entries of equal
\* score
InsertDesc_before_equals(sorted, x) ==
    LET p == Cardinality({i \in 1..Len(sorted) : sorted[i].score > x.score})
    IN  SubSeq(sorted, 1, p) \o <<x>> \o SubSeq(sorted, p + 1, Len(sorted))

\* list.sort(key=score, reverse=True) is stable: an entry goes behind the
\* entries of greater or equal score that were before it
InsertDesc(sorted, x) ==
    LET p == Cardinality({i \in 1..Len(sorted) : sorted[i].score >= x.score})
    IN  SubSeq(sorted, 1, p) \o <<x>> \o SubSeq(sorted, p + 1, Len(sorted))

RECURSIVE SortDesc(_)
SortDesc(list) ==
    IF list = <<>> THEN <<>>
    ELSE InsertDesc(SortDesc(SubSeq(list, 1, Len(list) - 1)), list[Len(list)])

\* InsightEngine.score_hypotheses
score_hypotheses(hypotheses, signals) == SortDesc(scored_list(hypotheses, signals))

\* the hypotheses of the probed libraries
HypAB == [id |-> "AB", required |-> {"A", "B"}, supporting |-> {"C"}]

HypNone == [id |-> "None", required |-> {}, supporting |-> {"A"}]

HypWide == [id |-> "Wide", required |-> {"A"},
            supporting |-> {"S1", "S2", "S3", "S4", "S5", "S6", "S7", "S8"}]

HypC == [id |-> "C", required |-> {"C"}, supporting |-> {}]

Hypotheses == {HypAB, HypNone, HypWide, HypC}

\* the libraries: no hypothesis, one, two in either order, and all four in
\* two orders
Libraries ==
    {<<>>}
    \cup {<<h>> : h \in Hypotheses}
    \cup {pair \in {<<h1, h2>> : h1 \in Hypotheses, h2 \in Hypotheses} : pair[1] # pair[2]}
    \cup {<<HypAB, HypNone, HypWide, HypC>>, <<HypC, HypWide, HypNone, HypAB>>}

\* the signals a probed signal set is drawn from
ObservedSignals == {"A", "B", "C", "S1", "S2", "S3"}

InitScore ==
    /\ conversations = EmptyDict
    /\ general_conversations = EmptyDict
    /\ query_cache = EmptyDict
    /\ last_execution_time_ms = 0
    /\ last_rows_returned = 0
    /\ run = [r \in Runs |-> IdleRun]
    /\ exec_log = <<>>
    /\ \E hypotheses \in Libraries, signals \in SUBSET ObservedSignals :
          probe = [op |-> "score_input", hypotheses |-> hypotheses, signals |-> signals]

\* score_hypotheses(probe.signals) on the library probe.hypotheses
ProbeScore ==
    /\ probe.op = "score_input"
    /\ probe' = [op |-> "scored", hypotheses |-> probe.hypotheses,
                 signals |-> probe.signals,
                 scored |-> score_hypotheses(probe.hypotheses, probe.signals)]
    /\ UNCHANGED <<engine_vars, executor_vars, exec_log>>

\* score_hypotheses once more, on the signal set with one signal added
ProbeScoreWider(signal) ==
    /\ probe.op = "scored"
    /\ signal \notin probe.signals
    /\ probe' = [op |-> "rescored", hypotheses |-> probe.hypotheses,
                 signals |-> probe.signals, scored |-> probe.scored,
                 wider |-> probe.signals \cup {signal},
                 rescored |-> score_hypotheses(probe.hypotheses,
                                               probe.signals \cup {signal})]
    /\ UNCHANGED <<engine_vars, executor_vars, exec_log>>

NextScore ==
    \/ ProbeScore
    \/ \E signal \in ObservedSignals : ProbeScoreWider(signal)

SpecScore == InitScore /\ [][NextScore]_vars

(***************************************************************************)
(* Signal detection (analytics.py).  A result table is a sequence of       *)
(* columns, each with its name, its dtype and one value per row: a natural *)
(* number in values for a numeric column, a text in texts for an object    *)
(* column.  There is no NaN, so dropna() keeps every value; the            *)
(* comparisons of means and deviations are made on integers.               *)
(***************************************************************************)
\* the texts of the column names, values and questions
T_4G == <<"4", "G">>

T_Bill_Payment == <<"B", "i", "l", "l", " ", "P", "a", "y", "m", "e", "n", "t">>

T_Bill_payments == <<"B", "i", "l", "l", " ", "p", "a", "y", "m", "e", "n", "t", "s">>

T_FAILED == <<"F", "A", "I", "L", "E", "D">>

T_Network_Type == <<"N", "e", "t", "w", "o", "r", "k", "_", "T", "y", "p", "e">>

T_P2P == <<"P", "2", "P">>

T_Recharge == <<"R", "e", "c", "h", "a", "r", "g", "e">>

T_SBI == <<"S", "B", "I">>

T_SUCCESS == <<"S", "U", "C", "C", "E", "S", "S">>

T_amount_inr == <<"a", "m", "o", "u", "n", "t", "_", "i", "n", "r">>

T_bill == <<"b", "i", "l", "l">>

T_biller == <<"b", "i", "l", "l", "e", "r">>

T_count == <<"c", "o", "u", "n", "t">>

T_device_type == <<"d", "e", "v", "i", "c", "e", "_", "t", "y", "p", "e">>

T_fail == <<"f", "a", "i", "l">>

T_failed == <<"f", "a", "i", "l", "e", "d">>

T_failed_count == <<"f", "a", "i", "l", "e", "d", "_", "c", "o", "u", "n", "t">>

T_failure == <<"f", "a", "i", "l", "u", "r", "e">>

T_failure_rate == <<"f", "a", "i", "l", "u", "r", "e", "_", "r", "a", "t", "e">>

T_failures == <<"f", "a", "i", "l", "u", "r", "e", "s">>

T_flag == <<"f", "l", "a", "g">>

T_fraud == <<"f", "r", "a", "u", "d">>

T_fraud_flag == <<"f", "r", "a", "u", "d", "_", "f", "l", "a", "g">>

T_fraud_risk == <<"f", "r", "a", "u", "d", " ", "r", "i", "s", "k">>

T_hour_of_day == <<"h", "o", "u", "r", "_", "o", "f", "_", "d", "a", "y">>

T_how_many_in_total ==
    <<"h", "o", "w", " ", "m", "a", "n", "y", " ", "i", "n", " ", "t", "o", "t", "a", "l">>

T_iOS == <<"i", "O", "S">>

T_is_weekend == <<"i", "s", "_", "w", "e", "e", "k", "e", "n", "d">>

T_network_type == <<"n", "e", "t", "w", "o", "r", "k", "_", "t", "y", "p", "e">>

T_pct == <<"p", "c", "t">>

T_percent == <<"p", "e", "r", "c", "e", "n", "t">>

T_rate == <<"r", "a", "t", "e">>

T_receiver_bank == <<"r", "e", "c", "e", "i", "v", "e", "r", "_", "b", "a", "n", "k">>

T_recharge == <<"r", "e", "c", "h", "a", "r", "g", "e">>

T_risk == <<"r", "i", "s", "k">>

T_sender_bank == <<"s", "e", "n", "d", "e", "r", "_", "b", "a", "n", "k">>

T_total == <<"t", "o", "t", "a", "l">>

T_transaction_status ==
    <<"t", "r", "a", "n", "s", "a", "c", "t", "i", "o", "n", "_", "s", "t", "a", "t", "u", "s">>

T_transaction_type ==
    <<"t", "r", "a", "n", "s", "a", "c", "t", "i", "o", "n", "_", "t", "y", "p", "e">>

T_txn_count == <<"t", "x", "n", "_", "c", "o", "u", "n", "t">>

T_retry == <<"r", "e", "t", "r", "y">>

T_Retry_Count == <<"R", "e", "t", "r", "y", "_", "C", "o", "u", "n", "t">>

RowCount(df) == IF df = <<>> THEN 0 ELSE Len(df[1].values)

\* df.empty: no column or no row
df_empty(df) == df = <<>> \/ RowCount(df) = 0

\* set(df.columns.str.lower())
LowerColumns(df) == {StrLower(df[i].name) : i \in 1..Len(df)}

\* df[name]: the column of exactly that name
Column(df, name) == df[CHOOSE i \in 1..Len(df) : df[i].name = name]

RECURSIVE SeqSum(_)
SeqSum(vals) == IF vals = <<>> THEN 0 ELSE Head(vals) + SeqSum(Tail(vals))

\* Series.max() > k; the maximum of no value is NaN, which is greater than
\* nothing
MaxAbove(vals, k) == \E i \in 1..Len(vals) : vals[i] > k

\* len(vals) > 1 and vals.std() > 0
StdPositive(vals) == \E i \in 1..Len(vals), j \in 1..Len(vals) : vals[i] # vals[j]

\* n * n * (n - 1) times the sample variance
ScaledVariance(vals) ==
    LET n == Len(vals)
        d == [i \in 1..n |-> (n * vals[i] - SeqSum(vals)) * (n * vals[i] - SeqSum(vals))]
    IN  SeqSum(d)

\* the values of column c on the rows where column sel has value v
Where(c, sel, v) ==
    LET RECURSIVE Pick(_)
        Pick(i) == IF i > Len(c.values) THEN <<>>
                   ELSE IF sel.values[i] = v THEN <<c.values[i]>> \o Pick(i + 1)
                   ELSE Pick(i + 1)
    IN  Pick(1)

\* twice the median of a non-empty series
TwiceMedian(vals) ==
    LET n == Len(vals)
        At(k) == CHOOSE v \in {vals[i] : i \in 1..n} :
                    /\ Cardinality({i \in 1..n : vals[i] < v}) < k
                    /\ Cardinality({i \in 1..n : vals[i] <= v}) >= k
    IN  IF n % 2 = 1 THEN 2 * At((n + 1) \div 2) ELSE At(n \div 2) + At((n \div 2) + 1)

\* a column whose lower-cased name holds 'fail' or 'rate' and whose dtype is
\* float64 or int64
IsRateColumn(c) ==
    /\ Contains(StrLower(c.name), T_fail) \/ Contains(StrLower(c.name), T_rate)
    /\ c.dtype \in {"float64", "int64"}

\* a variant of extract_signals that returns early only for a table without
\* columns
extract_signals_rows_unchecked(df, query_context) ==
    IF df = <<>> THEN {}
    ELSE (IF T_network_type \in LowerColumns(df) THEN {"NETWORK_FRAGILITY"} ELSE {})
         \cup (IF \E k \in {T_fraud, T_flag, T_risk} : Contains(StrLower(query_context), k)
               THEN {"FRAUD_CONCENTRATION"} ELSE {})
         \cup (IF \E k \in {T_bill, T_recharge, T_biller} :
                     Contains(StrLower(query_context), k)
               THEN {"EXTERNAL_DEPENDENCY", "HEAVY_VALIDATION"} ELSE {})

\* InsightEngine.extract_signals
extract_signals(df, query_context) ==
    IF df_empty(df) THEN {}
    ELSE
    LET columns == LowerColumns(df)
        cols == {df[i] : i \in 1..Len(df)}
        n == RowCount(df)
        query_lower == StrLower(query_context)
        \* the first loop: a failure rate column with a maximum above 5.0
        failure_detected ==
            \E c \in cols :
                /\ Contains(StrLower(c.name), T_failure) \/ Contains(StrLower(c.name), T_fail)
                /\ \/ Contains(StrLower(c.name), T_rate)
                   \/ Contains(StrLower(c.name), T_pct)
                   \/ Contains(StrLower(c.name), T_percent)
                /\ c.dtype \in {"float64", "int64", "float32"}
                /\ MaxAbove(c.values, 5)
        \* (failed / total) * 100 > 5.0 on transaction_status
        status_failures ==
            /\ ~failure_detected
            /\ T_transaction_status \in columns
            /\ LET status == Column(df, T_transaction_status).texts
                   failed == Cardinality({i \in 1..n : StrUpper(status[i]) = T_FAILED})
               IN  100 * failed > 5 * n
        \* the first column whose name holds 'total' or 'count'
        total_cols == {i \in 1..Len(df) :
                          \/ Contains(StrLower(df[i].name), T_total)
                          \/ Contains(StrLower(df[i].name), T_count)}
        total_col == df[CHOOSE i \in total_cols : \A j \in total_cols : i <= j]
        \* (df[col] / df[total_col] * 100).max() > 5.0; x / 0 is inf for
        \* x > 0 and NaN for x = 0
        count_failures ==
            /\ ~failure_detected
            /\ \E c \in cols :
                  /\ Contains(StrLower(c.name), T_failed)
                        \/ Contains(StrLower(c.name), T_failures)
                  /\ c.dtype \in {"float64", "int64"}
                  /\ total_cols # {}
                  /\ total_col.dtype \in {"float64", "int64"}
                  /\ \E i \in 1..n :
                        IF total_col.values[i] = 0 THEN c.values[i] > 0
                        ELSE 100 * c.values[i] > 5 * total_col.values[i]
        high_failure_rate == failure_detected \/ status_failures \/ count_failures
        \* mean_val > 0 and (vals.max() - mean_val) / mean_val > 0.5
        peak_sensitive ==
            /\ T_hour_of_day \in columns
            /\ \E c \in cols :
                  /\ c.dtype \in {"float64", "int64"}
                  /\ StrLower(c.name) # T_hour_of_day
                  /\ Len(c.values) > 1
                  /\ SeqSum(c.values) > 0
                  /\ \E i \in 1..n :
                        2 * (n * c.values[i] - SeqSum(c.values)) > SeqSum(c.values)
        network_fragility == T_network_type \in columns
        device_sensitivity ==
            /\ T_device_type \in columns
            /\ \E c \in cols : IsRateColumn(c) /\ Len(c.values) > 1 /\ StdPositive(c.values)
        \* the weekend mean of a rate column is more than 1.5 times its
        \* positive weekday mean; a KeyError of df['is_weekend'] is caught
        maintenance_window ==
            /\ T_is_weekend \in columns
            /\ \E i \in 1..Len(df) : df[i].name = T_is_weekend
            /\ \E c \in cols :
                  /\ IsRateColumn(c)
                  /\ LET wknd == Where(c, Column(df, T_is_weekend), 1)
                         wkdy == Where(c, Column(df, T_is_weekend), 0)
                     IN  /\ wknd # <<>> /\ wkdy # <<>>
                         /\ SeqSum(wkdy) > 0
                         /\ 2 * SeqSum(wknd) * Len(wkdy) > 3 * SeqSum(wkdy) * Len(wknd)
        bill_types ==
            /\ T_transaction_type \in columns
            /\ \E i \in 1..n :
                  Column(df, T_transaction_type).texts[i] \in {T_Bill_Payment, T_Recharge}
        bill_query == \E k \in {T_bill, T_recharge, T_biller} : Contains(query_lower, k)
        external_dependency == bill_types \/ bill_query
        \* the rows above the median amount have a mean fraud_flag above
        \* 0.05; a KeyError is caught
        high_value_risk ==
            /\ T_amount_inr \in columns /\ T_fraud_flag \in columns
            /\ \E i \in 1..Len(df) : df[i].name = T_amount_inr
            /\ \E i \in 1..Len(df) : df[i].name = T_fraud_flag
            /\ LET amount == Column(df, T_amount_inr).values
                   flag == Column(df, T_fraud_flag).values
                   high_val == {i \in 1..n : 2 * amount[i] > TwiceMedian(amount)}
                   flags == [i \in 1..n |-> IF i \in high_val THEN flag[i] ELSE 0]
               IN  high_val # {} /\ 100 * SeqSum(flags) > 5 * Cardinality(high_val)
        fraud_query == \E k \in {T_fraud, T_flag, T_risk} : Contains(query_lower, k)
        \* vals.std() / vals.mean() > 0.3; a mean of 0 comes with a
        \* deviation of 0 and gives NaN
        bank_concentration ==
            /\ T_sender_bank \in columns \/ T_receiver_bank \in columns
            /\ \E c \in cols :
                  /\ IsRateColumn(c)
                  /\ Len(c.values) > 1
                  /\ SeqSum(c.values) > 0
                  /\ 100 * ScaledVariance(c.values)
                        > 9 * (n - 1) * SeqSum(c.values) * SeqSum(c.values)
    IN  (IF high_failure_rate THEN {"HIGH_FAILURE_RATE"} ELSE {})
        \cup (IF peak_sensitive THEN {"PEAK_SENSITIVE"} ELSE {})
        \cup (IF network_fragility THEN {"NETWORK_FRAGILITY"} ELSE {})
        \cup (IF device_sensitivity THEN {"DEVICE_SENSITIVITY"} ELSE {})
        \cup (IF maintenance_window THEN {"MAINTENANCE_WINDOW_PATTERN"} ELSE {})
        \cup (IF external_dependency THEN {"EXTERNAL_DEPENDENCY"} ELSE {})
        \cup (IF bill_query \/ bill_types THEN {"HEAVY_VALIDATION"} ELSE {})
        \cup (IF high_failure_rate /\ external_dependency THEN {"HIGH_RETRIES"} ELSE {})
        \cup (IF high_value_risk THEN {"HIGH_VALUE_RISK"} ELSE {})
        \cup (IF fraud_query THEN {"FRAUD_CONCENTRATION"} ELSE {})
        \cup (IF bank_concentration THEN {"BANK_CONCENTRATION"} ELSE {})

\* a variant of retry_rule with the threshold met at 2.0 (>= in place of >)
retry_rule_from_two(df) ==
    \E i \in 1..Len(df) :
        /\ Contains(StrLower(df[i].name), T_retry)
        /\ df[i].dtype \in {"float64", "int64"}
        /\ MaxAbove(df[i].values, 1)

\* the retry-count rule of the single-product extract_signals: a float64 or
\* int64 column with 'retry' in its lowered name and a maximum above 2.0
retry_rule(df) ==
    \E i \in 1..Len(df) :
        /\ Contains(StrLower(df[i].name), T_retry)
        /\ df[i].dtype \in {"float64", "int64"}
        /\ MaxAbove(df[i].values, 2)

\* a variant of extract_signals_single without the block that adds
\* HEAVY_VALIDATION for the transaction types: only the question adds it
extract_signals_single_no_heavy_block(df, query_context) ==
    IF df_empty(df) THEN {}
    ELSE (extract_signals(df, query_context)
             \ (IF \E k \in {T_bill, T_recharge, T_biller} :
                       Contains(StrLower(query_context), k)
                 THEN {} ELSE {"HEAVY_VALIDATION"}))
         \cup (IF retry_rule(df) THEN {"HIGH_RETRIES"} ELSE {})

\* a variant of extract_signals_single in which the question adds
\* FRAUD_CONCENTRATION only for a table with a fraud_flag column
extract_signals_single_fraud_needs_flag(df, query_context) ==
    IF df_empty(df) THEN {}
    ELSE (extract_signals(df, query_context)
             \ (IF T_fraud_flag \in LowerColumns(df) THEN {} ELSE {"FRAUD_CONCENTRATION"}))
         \cup (IF retry_rule(df) THEN {"HIGH_RETRIES"} ELSE {})

\* InsightEngine.extract_signals of the single-product analytics module:
\* the rules of the composed one and, before the inference of HIGH_RETRIES
\* from the two other signals, the retry-count rule
extract_signals_single(df, query_context) ==
    IF df_empty(df) THEN {}
    ELSE extract_signals(df, query_context)
         \cup (IF retry_rule(df) THEN {"HIGH_RETRIES"} ELSE {})

\* the columns a probed table is made of: name, dtype and the values a row
\* can have, numbers for a numeric column and strings for an object column
ColumnKinds ==
    { [name |-> T_failure_rate, dtype |-> "float64",
        numbers |-> {2, 10}, strings |-> {<<>>}],
      [name |-> T_transaction_status, dtype |-> "object",
        numbers |-> {0}, strings |-> {T_FAILED, T_SUCCESS}],
      [name |-> T_failed_count, dtype |-> "int64",
        numbers |-> {0, 1}, strings |-> {<<>>}],
      [name |-> T_hour_of_day, dtype |-> "int64",
        numbers |-> {9, 18}, strings |-> {<<>>}],
      [name |-> T_Network_Type, dtype |-> "object",
        numbers |-> {0}, strings |-> {T_4G}],
      [name |-> T_device_type, dtype |-> "object",
        numbers |-> {0}, strings |-> {T_iOS}],
      [name |-> T_is_weekend, dtype |-> "int64",
        numbers |-> {0, 1}, strings |-> {<<>>}],
      [name |-> T_transaction_type, dtype |-> "object",
        numbers |-> {0}, strings |-> {T_Bill_Payment, T_P2P}],
      [name |-> T_amount_inr, dtype |-> "int64",
        numbers |-> {100, 900}, strings |-> {<<>>}],
      [name |-> T_fraud_flag, dtype |-> "int64",
        numbers |-> {0, 1}, strings |-> {<<>>}],
      [name |-> T_sender_bank, dtype |-> "object",
        numbers |-> {0}, strings |-> {T_SBI}],
      [name |-> T_txn_count, dtype |-> "int64",
        numbers |-> {1, 3}, strings |-> {<<>>}],
      [name |-> T_Retry_Count, dtype |-> "int64",
        numbers |-> {2, 3}, strings |-> {<<>>}] }

\* the columns of kind k with rows rows
ColumnsOf(k, rows) ==
    {[name |-> k.name, dtype |-> k.dtype, values |-> v, texts |-> t] :
        v \in [1..rows -> k.numbers], t \in [1..rows -> k.strings]}

\* the tables: one or two columns of different kinds with at most MaxRows
\* rows
Tables ==
    UNION {{<<c>> : c \in ColumnsOf(k, rows)} : k \in ColumnKinds, rows \in 0..MaxRows}
    \cup UNION {{<<c1, c2>> : c1 \in ColumnsOf(pair[1], rows), c2 \in ColumnsOf(pair[2], rows)} :
                   pair \in {p \in ColumnKinds \X ColumnKinds : p[1] # p[2]},
                   rows \in 0..MaxRows}

\* the question texts
Questions == {T_how_many_in_total, T_Bill_payments, T_fraud_risk}

InitDetect ==
    /\ conversations = EmptyDict
    /\ general_conversations = EmptyDict
    /\ query_cache = EmptyDict
    /\ last_execution_time_ms = 0
    /\ last_rows_returned = 0
    /\ run = [r \in Runs |-> IdleRun]
    /\ exec_log = <<>>
    /\ \E df \in Tables, query_context \in Questions :
          probe = [op |-> "detect_input", df |-> df, query_context |-> query_context]

\* extract_signals(probe.df, probe.query_context)
ProbeDetect ==
    /\ probe.op = "detect_input"
    /\ probe' = [op |-> "detected", df |-> probe.df, query_context |-> probe.query_context,
                 signals |-> extract_signals(probe.df, probe.query_context)]
    /\ UNCHANGED <<engine_vars, executor_vars, exec_log>>

\* extract_signals(probe.df, probe.query_context) of the single-product
\* analytics module
ProbeDetectSingle ==
    /\ probe.op = "detect_input"
    /\ probe' = [op |-> "detected_single", df |-> probe.df,
                 query_context |-> probe.query_context,
                 signals |-> extract_signals_single(probe.df, probe.query_context)]
    /\ UNCHANGED <<engine_vars, executor_vars, exec_log>>

NextDetect == ProbeDetect \/ ProbeDetectSingle

SpecDetect == InitDetect /\ [][NextDetect]_vars

(***************************************************************************)
(* Two conversations and clear_conversation.  The services and the engine  *)
(* answer without fault; probe keeps what the last clear_conversation call *)
(* was given and how many tracks it found.                                 *)
(***************************************************************************)
ClearConvIds == {"c1", "c2"}

ClearQueries == {QGreeting, QData}

\* the number of tracks of all conversations
TrackCount(convs, gconvs) == Cardinality(DOMAIN convs) + Cardinality(DOMAIN gconvs)

\* a call of clear_conversation between two process_query calls
ClearCall(conversation_id) ==
    /\ AllIdle
    /\ clear_tracks(conversation_id)
    /\ probe' = [op |-> "clear_conversation", conversation_id |-> conversation_id,
                 tracks |-> TrackCount(conversations, general_conversations)]
    /\ UNCHANGED <<executor_vars, run, exec_log>>

NextClear ==
    \/ \E r \in Runs, user_query \in ClearQueries, conversation_id \in ClearConvIds \cup {NoConv} :
          AllIdle /\ Start(r, user_query, conversation_id)
    \/ \E r \in Runs : Route(r, LlmRaise)
    \/ \E r \in Runs : HandleGeneral(r, TRUE)
    \/ \E r \in Runs : TranslateAttempt(r, ValidReply)
    \/ \E r \in Runs : Validate(r)
    \/ \E r \in Runs : Execute(r, TRUE, 1)
    \/ \E r \in Runs : ExtractSignals(r, FALSE)
    \/ \E r \in Runs : ScoreHypotheses(r, FALSE)
    \/ \E r \in Runs : GenerateInsight(r, TRUE)
    \/ \E r \in Runs : Return(r)
    \/ \E conversation_id \in ClearConvIds \cup {NoConv} : ClearCall(conversation_id)

SpecClear == Init /\ [][NextClear]_vars

(***************************************************************************)
(* process_query calls of two conversations and of callers without a       *)
(* conversation, one after the other, with the failures of the completion  *)
(* service and of the engine.                                              *)
(***************************************************************************)
NextIsolation ==
    \/ \E r \in Runs, user_query \in ClearQueries, conversation_id \in ClearConvIds \cup {NoConv} :
          AllIdle /\ Start(r, user_query, conversation_id)
    \/ \E r \in Runs : Route(r, LlmRaise)
    \/ \E r \in Runs, llm_ok \in BOOLEAN : HandleGeneral(r, llm_ok)
    \/ \E r \in Runs, reply \in {ValidReply, DropReply} : TranslateAttempt(r, reply)
    \/ \E r \in Runs : Validate(r)
    \/ \E r \in Runs, engine_ok \in BOOLEAN : Execute(r, engine_ok, 1)
    \/ \E r \in Runs : ExtractSignals(r, FALSE)
    \/ \E r \in Runs : ScoreHypotheses(r, FALSE)
    \/ \E r \in Runs, llm_ok \in BOOLEAN : GenerateInsight(r, llm_ok)
    \/ \E r \in Runs : Return(r)

SpecIsolation == Init /\ [][NextIsolation]_vars

(***************************************************************************)
(* The orchestrator of shinchan.ai.v1 (main.py): process_query has no      *)
(* router and no conversation id, and keeps one history list, held here in *)
(* probe.history.  Its steps up to the scoring are those of the engine     *)
(* above; its last step differs.                                           *)
(***************************************************************************)
InitV1 ==
    /\ conversations = EmptyDict
    /\ general_conversations = EmptyDict
    /\ query_cache = EmptyDict
    /\ last_execution_time_ms = 0
    /\ last_rows_returned = 0
    /\ run = [r \in Runs |-> IdleRun]
    /\ exec_log = <<>>
    /\ probe = [op |-> "v1", history |-> <<>>]

\* process_query(user_query) is called: the result dict is built and the
\* translation is about to start
StartV1(r, user_query) ==
    /\ run[r].pc = "idle"
    /\ run' = [run EXCEPT ![r] =
                 [IdleRun EXCEPT
                    !.pc = "translate",
                    !.user_query = user_query,
                    !.query_type = "data",
                    !.result = InitResult(user_query),
                    !.cache0 = query_cache]]
    /\ UNCHANGED <<conversations, general_conversations, executor_vars, exec_log, probe>>

\* step 5 of process_query in main.py and its end: when generate_insight
\* raises InsightGenerationError the fallback summary is the insight and
\* result['error'] is set; the call goes on, adds the turn to the history
\* (capped by _max_history, for which MaxHistory stands) and returns
GenerateInsightV1(r, llm_ok) ==
    /\ run[r].pc = "insight"
    /\ probe.op = "v1"
    /\ LET insight == IF llm_ok THEN "insight" ELSE generate_fallback_insight(run[r].df)
       IN  /\ run' = [run EXCEPT
                        ![r].result = [@ EXCEPT
                            !.insight = insight,
                            !.error = IF llm_ok THEN NoError
                                      ELSE [kind |-> "Insight generation failed"]],
                        ![r].stages = Append(@, "insight"),
                        ![r].terminal = "SUCCESS",
                        ![r].pc = "done"]
           /\ probe' = [probe EXCEPT !.history =
                          AppendTrim(@, [query |-> run[r].user_query,
                                         sql |-> run[r].sql,
                                         insight_preview |-> insight])]
    /\ UNCHANGED <<conversations, general_conversations, executor_vars, exec_log>>

NextV1 ==
    \/ \E r \in Runs, user_query \in Queries : AllIdle /\ StartV1(r, user_query)
    \/ \E r \in Runs, reply \in TranslatorReplies : TranslateAttempt(r, reply)
    \/ \E r \in Runs : Validate(r)
    \/ \E r \in Runs, engine_ok \in BOOLEAN, elapsed \in Elapsed : Execute(r, engine_ok, elapsed)
    \/ \E r \in Runs, fault \in BOOLEAN : ExtractSignals(r, fault)
    \/ \E r \in Runs, fault \in BOOLEAN : ScoreHypotheses(r, fault)
    \/ \E r \in Runs, llm_ok \in BOOLEAN : GenerateInsightV1(r, llm_ok)
    \/ \E r \in Runs : Return(r)

SpecV1 == InitV1 /\ [][NextV1]_vars

(***************************************************************************)
(* The executor with the identity of its tables.  A DataFrame is an object *)
(* on the heap: probe.heap[o] is the content of object o, query_cache maps *)
(* a text to the object stored for it, probe.held are the objects that     *)
(* were returned to callers, and probe.calls notes for every call its      *)
(* text, whether it was a hit, the object it returned and the content of   *)
(* that object at the return.  A caller can change the content of an       *)
(* object it holds.                                                        *)
(***************************************************************************)
\* execute calls made on one executor
MaxObjectCalls == 3

\* a variant of execute_objects whose hit returns the cached object itself
execute_objects_shared(p, cache, sql) ==
    IF sql \in DOMAIN cache
    THEN [heap |-> p.heap, cache |-> cache, hit |-> TRUE, returned |-> cache[sql]]
    ELSE LET df == Len(p.heap) + 1
             heap == Append(p.heap, EngineResult(sql))
         IN  IF CacheSize(cache) < CacheMaxSize
             THEN [heap |-> Append(heap, heap[df]),
                   cache |-> DictSet(cache, sql, df + 1), hit |-> FALSE, returned |-> df]
             ELSE [heap |-> heap, cache |-> cache, hit |-> FALSE, returned |-> df]

\* SQLExecutor.execute(sql) with use_cache on a working engine, on objects:
\* a hit returns cached.copy(), a new object with the content of the cached
\* one; a miss returns the object df of the engine and stores df.copy(),
\* another new object, while the cache has room
execute_objects(p, cache, sql) ==
    IF sql \in DOMAIN cache
    THEN [heap |-> Append(p.heap, p.heap[cache[sql]]), cache |-> cache,
          hit |-> TRUE, returned |-> Len(p.heap) + 1]
    ELSE LET df == Len(p.heap) + 1
             heap == Append(p.heap, EngineResult(sql))
         IN  IF CacheSize(cache) < CacheMaxSize
             THEN [heap |-> Append(heap, heap[df]),
                   cache |-> DictSet(cache, sql, df + 1), hit |-> FALSE, returned |-> df]
             ELSE [heap |-> heap, cache |-> cache, hit |-> FALSE, returned |-> df]

InitObjects ==
    /\ conversations = EmptyDict
    /\ general_conversations = EmptyDict
    /\ query_cache = EmptyDict
    /\ last_execution_time_ms = 0
    /\ last_rows_returned = 0
    /\ run = [r \in Runs |-> IdleRun]
    /\ exec_log = <<>>
    /\ probe = [op |-> "objects", heap |-> <<>>, held |-> {}, calls |-> <<>>]

\* a call of execute(sql); elapsed is the measured latency of the engine
ExecObjects(sql, elapsed) ==
    /\ Len(probe.calls) < MaxObjectCalls
    /\ LET x == execute_objects(probe, query_cache, sql)
       IN  /\ query_cache' = x.cache
           /\ last_execution_time_ms' = IF x.hit THEN 0 ELSE elapsed
           /\ last_rows_returned' = Len(x.heap[x.returned])
           /\ probe' = [op |-> "objects", heap |-> x.heap,
                        held |-> probe.held \cup {x.returned},
                        calls |-> Append(probe.calls,
                                         [sql |-> sql, hit |-> x.hit, object |-> x.returned,
                                          content |-> x.heap[x.returned]])]
    /\ UNCHANGED <<engine_vars, exec_log>>

\* a caller changes the table it was given, in place: a row 0 is put in
\* front (the engine returns no such row)
MutateHeld(o) ==
    /\ o \in probe.held
    /\ ~(Len(probe.heap[o]) > 0 /\ probe.heap[o][1] = 0)
    /\ probe' = [probe EXCEPT !.heap[o] = <<0>> \o @]
    /\ UNCHANGED <<engine_vars, executor_vars, exec_log>>

NextObjects ==
    \/ \E sql \in ExecTexts, elapsed \in Elapsed : ExecObjects(sql, elapsed)
    \/ \E o \in 1..(2 * MaxObjectCalls) : MutateHeld(o)

SpecObjects == InitObjects /\ [][NextObjects]_vars

(***************************************************************************)
(* Properties.                                                             *)
(***************************************************************************)
Terminals ==
    {"SUCCESS", "TRANSLATION_FAILED", "VALIDATION_BLOCKED", "EXECUTION_FAILED",
     "GENERAL_ANSWERED"}

\* the last n elements of a sequence (all of it when it is shorter)
LastN(seq, n) == SubSeq(seq, IF Len(seq) > n THEN Len(seq) - n + 1 ELSE 1, Len(seq))

\* how often a stage occurs in a list of stages
Count(stages, stage) == Cardinality({i \in 1..Len(stages) : stages[i] = stage})

\* C1: for a process_query call with a conversation id, when the call has
\* ended, the conversation's data history is the history found at the start
\* plus exactly one entry {user_query, sql} of this call (the oldest entry
\* making room when the track is at its cap) if the call ended in SUCCESS,
\* and is the history found at the start if it ended in any other terminal.
C1_HistoryOnlyOnSuccess ==
    \A r \in Runs :
        (run[r].pc = "done" /\ run[r].conversation_id # NoConv) =>
            LET after == DictGet(conversations, run[r].conversation_id, <<>>)
                entry == [user_query |-> run[r].user_query, sql |-> run[r].result.sql]
            IN  /\ run[r].terminal \in Terminals
                /\ IF run[r].terminal = "SUCCESS"
                   THEN after = LastN(Append(run[r].history0, entry), MaxHistory)
                   ELSE after = run[r].history0

\* a call in a conversation with one earlier turn ended in SUCCESS
C1_Witness ==
    \E r \in Runs :
        /\ run[r].pc = "done"
        /\ run[r].terminal = "SUCCESS"
        /\ run[r].conversation_id # NoConv
        /\ Len(run[r].history0) = 1
        /\ Len(conversations[run[r].conversation_id]) = 2

\* C2: the executor is invoked on a text only if that text is what the last
\* translation attempt returned and validate_query accepts it; a call that
\* ended in TRANSLATION_FAILED or VALIDATION_BLOCKED never invoked the
\* executor, made no engine call and left the cache as it found it.
C2_ExecutorOnlyAfterGates ==
    \A r \in Runs :
        /\ (run[r].executed # NoneText \/ run[r].engine_calls > 0
              \/ InList("execute", run[r].stages)) =>
              /\ translate(run[r].last_reply).ok
              /\ run[r].executed = translate(run[r].last_reply).sql
              /\ validate_query(run[r].executed)
              /\ InList("validate", run[r].stages)
        /\ run[r].terminal \in {"TRANSLATION_FAILED", "VALIDATION_BLOCKED"} =>
              /\ run[r].executed = NoneText
              /\ run[r].engine_calls = 0
              /\ query_cache = run[r].cache0

\* a call whose translation was exhausted by a text validate_query accepts,
\* after an earlier call has filled the cache
C2_Witness ==
    \E r \in Runs :
        /\ run[r].pc = "done"
        /\ run[r].terminal = "TRANSLATION_FAILED"
        /\ run[r].last_reply = BareSelectReply
        /\ validate_query(run[r].last_reply)
        /\ query_cache # EmptyDict

\* C3 as stated: when the generation step yields "DROP TABLE transactions",
\* the call ends in VALIDATION_BLOCKED without invoking the executor.
C3_DropEndsValidationBlocked ==
    \A r \in Runs :
        (run[r].pc = "done" /\ run[r].last_reply = DropReply) =>
            /\ run[r].terminal = "VALIDATION_BLOCKED"
            /\ run[r].executed = NoneText

\* C3 amended: when the last generation attempt yields "DROP TABLE
\* transactions", the translator's own check has rejected it, the call ends
\* in TRANSLATION_FAILED after MaxRetries + 1 attempts, and neither the
\* validator nor the executor was invoked; validate_query rejects the text
\* as well.
C3_DropEndsTranslationFailed ==
    \A r \in Runs :
        (run[r].pc = "done" /\ run[r].last_reply = DropReply) =>
            /\ run[r].terminal = "TRANSLATION_FAILED"
            /\ Count(run[r].stages, "translate") = MaxRetries + 1
            /\ ~InList("validate", run[r].stages)
            /\ run[r].executed = NoneText
            /\ run[r].engine_calls = 0
            /\ ~validate_query(DropReply)

\* a call has ended whose last generation attempt answered the DROP text
C3_Witness ==
    \E r \in Runs :
        /\ run[r].pc = "done"
        /\ run[r].last_reply = DropReply
        /\ run[r].terminal \in Terminals

\* the place of a stage in the pipeline; the general answer takes the place
\* of the translation
StageRank(stage) ==
    CASE stage = "route" -> 1
      [] stage = "general" -> 2
      [] stage = "translate" -> 2
      [] stage = "validate" -> 3
      [] stage = "execute" -> 4
      [] stage = "signals" -> 5
      [] stage = "score" -> 6
      [] stage = "insight" -> 7

\* the stages a call that ended in a terminal state has passed
StagesOf(terminal) ==
    CASE terminal = "GENERAL_ANSWERED" -> {"route", "general"}
      [] terminal = "TRANSLATION_FAILED" -> {"route", "translate"}
      [] terminal = "VALIDATION_BLOCKED" -> {"route", "translate", "validate"}
      [] terminal = "EXECUTION_FAILED" -> {"route", "translate", "validate", "execute"}
      [] terminal = "SUCCESS" -> {"route", "translate", "validate", "execute",
                                  "signals", "score", "insight"}

\* the stages of every call are in pipeline order (route, translate,
\* validate, execute, signals = detect, score, insight = narrate), none but
\* the translation is entered twice, a call has a terminal state exactly
\* when it has ended, and then it has passed exactly the stages up to the
\* one that ended it
C4_StagesInOrder ==
    \A r \in Runs :
        LET stages == run[r].stages
        IN  /\ run[r].pc \in {"idle", "route", "general", "translate", "validate",
                              "execute", "signals", "score", "insight", "done"}
            /\ \A i, j \in 1..Len(stages) :
                   i < j => \/ StageRank(stages[i]) < StageRank(stages[j])
                            \/ stages[i] = "translate" /\ stages[j] = "translate"
            /\ IF run[r].pc = "done"
               THEN /\ run[r].terminal \in Terminals
                    /\ {stages[i] : i \in 1..Len(stages)} = StagesOf(run[r].terminal)
               ELSE run[r].terminal = "None"

\* every call that was started ends
C4_Terminates == \A r \in Runs : (run[r].pc # "idle") ~> (run[r].pc = "done")

\* C4: provided every call to a service or to the engine returns or raises,
\* every process_query call ends in exactly one of the five terminal states,
\* after passing the stages in the fixed order, and no stage other than the
\* translation is attempted more than once.
C4_EndsInOneTerminal == []C4_StagesInOrder /\ C4_Terminates

\* a call ended in SUCCESS after the translation took all its attempts
C4_Witness ==
    \E r \in Runs :
        /\ run[r].pc = "done"
        /\ run[r].terminal = "SUCCESS"
        /\ Count(run[r].stages, "translate") = MaxRetries + 1
        /\ Len(run[r].stages) = MaxRetries + 7

\* what holds of the translation attempts of a call in every state
C5_Attempts ==
    \A r \in Runs :
        LET n == Count(run[r].stages, "translate")
            t == translate(run[r].last_reply)
        IN  /\ n <= MaxRetries + 1
            /\ run[r].pc = "translate" =>
                  /\ n = run[r].attempt
                  /\ n > 0 => ~t.ok
            /\ (n > 0 /\ run[r].pc # "translate" /\ run[r].terminal # "TRANSLATION_FAILED") =>
                  /\ t.ok
                  /\ run[r].sql = t.sql
                  /\ run[r].result.sql = t.sql
                  /\ n = run[r].attempt + 1
            /\ run[r].terminal = "TRANSLATION_FAILED" =>
                  /\ n = MaxRetries + 1
                  /\ ~t.ok
                  /\ run[r].result.sql = NoneText
                  /\ run[r].result.error =
                        [kind |-> "Translation failed", attempts |-> MaxRetries + 1,
                         last_error |-> t.error]

\* once translate_with_retry has returned or raised, the call makes no
\* further translation attempt and keeps the text
C5_NoFurtherAttempt ==
    \A r \in Runs :
        (run[r].pc \notin {"idle", "route", "translate"} /\ run'[r].pc # "idle") =>
            /\ Count(run'[r].stages, "translate") = Count(run[r].stages, "translate")
            /\ run'[r].sql = run[r].sql

\* C5: translate_with_retry calls translate at most MaxRetries + 1 times; it
\* returns what the first successful attempt returned (every attempt before
\* it failed, none follows it), and it raises the translation failure that
\* embeds the last attempt's error only after exactly MaxRetries + 1 failed
\* attempts.
C5_RetryBound == []C5_Attempts /\ [][C5_NoFurtherAttempt]_vars

\* every attempt was spent and the last one cleaned up to the empty string
C5_Witness ==
    \E r \in Runs :
        /\ run[r].terminal = "TRANSLATION_FAILED"
        /\ run[r].last_reply = FenceReply
        /\ _clean_sql(Strip(run[r].last_reply)) = <<>>
        /\ run[r].last_error.sql = <<>>
        /\ Count(run[r].stages, "translate") = MaxRetries + 1

\* one of the words occurs in s as a whole word in any letter case: a run of
\* word characters with no word character on either side whose upper-case
\* form is one of the words
HasStandaloneWord(s, words) ==
    \E i \in 1..Len(s) : \E j \in i..Len(s) :
        /\ \A k \in i..j : s[k] \in WordChars
        /\ i = 1 \/ s[i - 1] \notin WordChars
        /\ j = Len(s) \/ s[j + 1] \notin WordChars
        /\ StrUpper(SubSeq(s, i, j)) \in words

\* C6: translate returns a SQL text exactly when the cleaned response is
\* non-empty, holds none of the translator's destructive keywords as a whole
\* word in any letter case, starts with SELECT or WITH and contains the
\* table name transactions; otherwise it raises the translation failure.  A
\* keyword inside a longer identifier does not cause rejection.
C6_TranslateAcceptsExactly ==
    probe.op = "translate" =>
        LET cleaned == _clean_sql(Strip(probe.text))
            acceptable ==
                /\ cleaned # <<>>
                /\ ~HasStandaloneWord(cleaned, DANGEROUS_WORDS)
                /\ \/ StartsWith(StrUpper(cleaned), KwSelect)
                   \/ StartsWith(StrUpper(cleaned), KwWith)
                /\ Contains(StrLower(cleaned), TableName)
        IN  /\ probe.ok = acceptable
            /\ probe.ok => probe.sql \in {cleaned, cleaned \o LimitClause}
            /\ ~probe.ok => /\ probe.sql = NoneText
                            /\ probe.error.kind = "SQL failed validation"

\* a response with UPDATE inside the identifier updated_at was accepted
C6_Witness ==
    /\ probe.op = "translate"
    /\ probe.ok
    /\ Contains(probe.text, <<"u", "p", "d", "a", "t", "e", "d", "_", "a", "t">>)
    /\ Contains(StrUpper(probe.sql), <<"U", "P", "D", "A", "T", "E">>)

\* C7 as stated: validate_query returns false exactly when one of its eight
\* keywords stands in the statement as a whole word in any letter case, or
\* the statement does not begin with SELECT or WITH.
C7_RejectsExactlyStandaloneKeywords ==
    probe.op = "validate_query" =>
        LET sql_upper == Strip(StrUpper(probe.text))
        IN  (probe.result = FALSE) <=>
                \/ HasStandaloneWord(probe.text, DANGEROUS_KEYWORDS)
                \/ ~(StartsWith(sql_upper, KwSelect) \/ StartsWith(sql_upper, KwWith))

\* C8 as stated: in any executor state, of two consecutive calls
\* execute(sql, use_cache = true) on which the engine does not fail, both
\* return the same table and the second is served from the cache: no engine
\* call, latency zero, row count of the cached table.
C8_RoundTripInAnyState ==
    (/\ Len(exec_log) = 2
     /\ exec_log[1].op = "execute" /\ exec_log[2].op = "execute"
     /\ exec_log[1].sql = exec_log[2].sql
     /\ exec_log[1].use_cache /\ exec_log[2].use_cache
     /\ ~exec_log[1].raised /\ ~exec_log[2].raised) =>
        /\ exec_log[1].df = exec_log[2].df
        /\ ~exec_log[2].engine_called
        /\ last_execution_time_ms = 0
        /\ exec_log[2].sql \in DOMAIN query_cache
        /\ last_rows_returned = Len(query_cache[exec_log[2].sql])

\* C8 amended: the same, for a first call that finds the text in the cache
\* or finds the cache below its maximum size.
C8_RoundTripWithRoom ==
    (/\ Len(exec_log) = 2
     /\ exec_log[1].op = "execute" /\ exec_log[2].op = "execute"
     /\ exec_log[1].sql = exec_log[2].sql
     /\ exec_log[1].use_cache /\ exec_log[2].use_cache
     /\ ~exec_log[1].raised /\ ~exec_log[2].raised
     /\ \/ exec_log[1].sql \in DOMAIN exec_log[1].cache_before
        \/ CacheSize(exec_log[1].cache_before) < CacheMaxSize) =>
        /\ exec_log[1].df = exec_log[2].df
        /\ ~exec_log[2].engine_called
        /\ last_execution_time_ms = 0
        /\ exec_log[2].sql \in DOMAIN query_cache
        /\ last_rows_returned = Len(query_cache[exec_log[2].sql])

\* the engine computed a table with rows on the first call, the second call
\* found it in the cache
C8_Witness ==
    /\ Len(exec_log) = 2
    /\ exec_log[1].op = "execute" /\ exec_log[2].op = "execute"
    /\ exec_log[1].sql = exec_log[2].sql
    /\ exec_log[1].use_cache /\ exec_log[2].use_cache
    /\ exec_log[1].engine_called /\ ~exec_log[1].raised
    /\ exec_log[1].cache_before # EmptyDict
    /\ ~exec_log[2].engine_called
    /\ Len(exec_log[2].df) > 0

\* the cache never holds more than its maximum number of entries
C9_CacheBounded == CacheSize(query_cache) <= CacheMaxSize

\* a call other than clear_cache keeps every entry with its table, and a call
\* on a full cache that computes a table returns it and stores nothing
C9_NoEviction ==
    LET e == exec_log'[Len(exec_log')]
    IN  IF e.op = "clear_cache" THEN query_cache' = EmptyDict
        ELSE /\ \A k \in DOMAIN query_cache :
                    k \in DOMAIN query_cache' /\ query_cache'[k] = query_cache[k]
             /\ (CacheSize(query_cache) = CacheMaxSize /\ e.engine_called /\ ~e.raised) =>
                    /\ e.df = EngineResult(e.sql)
                    /\ query_cache' = query_cache

\* C9: after any sequence of execute and clear_cache calls the cache holds
\* at most CacheMaxSize entries; on a full cache a newly computed result is
\* returned but not stored, and no entry is evicted or replaced except by
\* clear_cache.
C9_CacheSaturates == []C9_CacheBounded /\ [][C9_NoEviction]_vars

\* a call with caching enabled computed a table on a full cache
C9_Witness ==
    /\ Len(exec_log) > 0
    /\ LET e == exec_log[Len(exec_log)]
       IN  /\ e.op = "execute" /\ e.use_cache /\ e.engine_called /\ ~e.raised
           /\ CacheSize(e.cache_before) = CacheMaxSize
           /\ e.sql \notin DOMAIN query_cache
           /\ CacheSize(query_cache) = CacheMaxSize

\* no track holds more than MaxHistory entries
C10_Capped ==
    /\ \A cid \in DOMAIN conversations : Len(conversations[cid]) <= MaxHistory
    /\ \A cid \in DOMAIN general_conversations :
           Len(general_conversations[cid]) <= MaxHistory

\* a step changes a track only by recording the turn of the call that ends
\* (SUCCESS for the data track, an answered general question for the general
\* track), and the track is then the last MaxHistory entries of the old
\* track followed by the new turn; clear_conversation alone empties a track
C10_FifoStep ==
    \A cid \in ConvIds :
        LET old == DictGet(conversations, cid, <<>>)
            new == DictGet(conversations', cid, <<>>)
            gold == DictGet(general_conversations, cid, <<>>)
            gnew == DictGet(general_conversations', cid, <<>>)
            saving(r) == /\ run[r].pc = "insight" /\ run'[r].pc = "done"
                         /\ run[r].conversation_id = cid
            gsaving(r) == /\ run[r].pc = "general" /\ run'[r].pc = "done"
                          /\ run[r].conversation_id = cid
                          /\ run'[r].result.insight = GeneralReply
            clearing == AllIdle /\ run' = run
        IN  /\ IF \E r \in Runs : saving(r)
               THEN \E r \in Runs :
                       /\ saving(r)
                       /\ new = LastN(Append(old, [user_query |-> run[r].user_query,
                                                   sql |-> run[r].sql]), MaxHistory)
               ELSE new = old \/ (clearing /\ new = <<>>)
            /\ IF \E r \in Runs : gsaving(r)
               THEN \E r \in Runs :
                       /\ gsaving(r)
                       /\ gnew = LastN(Append(gold, [user |-> run[r].user_query,
                                                     assistant |-> GeneralReply]), MaxHistory)
               ELSE gnew = gold \/ (clearing /\ gnew = <<>>)

\* C10: after any sequence of process_query calls each conversation's data
\* history and general history holds at most MaxHistory entries, namely the
\* most recently recorded turns of the track in the order they were
\* recorded: an append beyond the cap removes the oldest entry.
C10_HistoryCappedFifo == []C10_Capped /\ [][C10_FifoStep]_vars

\* a turn was recorded on a data track at its cap, pushing out the oldest
\* entry, in a conversation whose general track is at its cap too
C10_Witness ==
    \E r \in Runs :
        /\ run[r].pc = "done"
        /\ run[r].terminal = "SUCCESS"
        /\ run[r].conversation_id # NoConv
        /\ Len(run[r].history0) = MaxHistory
        /\ conversations[run[r].conversation_id] =
              Append(Tail(run[r].history0),
                     [user_query |-> run[r].user_query, sql |-> run[r].sql])
        /\ conversations[run[r].conversation_id][1] # run[r].history0[1]
        /\ run[r].conversation_id \in DOMAIN general_conversations
        /\ Len(general_conversations[run[r].conversation_id]) = MaxHistory

\* the turn a call records in the data track
TurnOf(r) == [user_query |-> run[r].user_query, sql |-> run[r].sql]

\* two calls for one conversation that started from the same history and
\* both ended in SUCCESS: the second started before the first had saved
OverlappedSuccess(r1, r2) ==
    /\ r1 # r2
    /\ run[r1].pc = "done" /\ run[r1].terminal = "SUCCESS"
    /\ run[r2].pc = "done" /\ run[r2].terminal = "SUCCESS"
    /\ run[r1].conversation_id # NoConv
    /\ run[r1].conversation_id = run[r2].conversation_id
    /\ run[r1].history0 = run[r2].history0

\* C11: when two process_query calls for the same conversation id overlap
\* and both end in SUCCESS, the history of that conversation holds the turn
\* of each of them afterwards (its last two entries are the two turns, in
\* one order or the other): no interleaving loses an append.
C11_OverlappingSavesBothKept ==
    \A r1 \in DOMAIN run, r2 \in DOMAIN run :
        OverlappedSuccess(r1, r2) =>
            LET h == DictGet(conversations, run[r1].conversation_id, <<>>)
            IN  /\ Len(h) >= 2
                /\ \/ LastN(h, 2) = <<TurnOf(r1), TurnOf(r2)>>
                   \/ LastN(h, 2) = <<TurnOf(r2), TurnOf(r1)>>

\* C12: under every interleaving of execute calls the cache holds at most
\* CacheMaxSize entries, and every entry maps a SQL text to the result of
\* executing that same text.
C12_ConcurrentCacheBoundedAndTrue ==
    /\ CacheSize(query_cache) <= CacheMaxSize
    /\ \A sql \in DOMAIN query_cache : query_cache[sql] = EngineResult(sql)

\* extract_signals of call r has raised / score_hypotheses of call r has raised
SignalsFailed(r) == Count(run[r].stages, "signals") = 1 /\ run[r].signals = "empty"

ScoringFailed(r) == Count(run[r].stages, "score") = 1 /\ run[r].scored = "empty"

\* the turn of call r is the newest entry of its conversation (a call
\* without a conversation id records nothing)
TurnRecorded(r) ==
    run[r].conversation_id # NoConv =>
        LET h == DictGet(conversations, run[r].conversation_id, <<>>)
        IN  /\ h # <<>>
            /\ h[Len(h)] = [user_query |-> run[r].user_query, sql |-> run[r].sql]

\* C13: when signal detection raises the call goes on with the empty signal
\* set, when hypothesis scoring raises it goes on with the empty ranking; in
\* both cases the call ends in SUCCESS, its response carries the rows of the
\* executed statement, and the turn is recorded.
C13_AnalysisFaultsTolerated ==
    \A r \in Runs :
        /\ SignalsFailed(r) =>
              /\ run[r].pc \in {"score", "insight", "done"}
              /\ run[r].result.signals = "empty"
        /\ ScoringFailed(r) =>
              /\ run[r].pc \in {"insight", "done"}
              /\ run[r].result.hypotheses = "empty"
        /\ (SignalsFailed(r) \/ ScoringFailed(r)) /\ run[r].pc = "done" =>
              /\ run[r].terminal = "SUCCESS"
              /\ run[r].result.error = NoError
              /\ run[r].result.data = EngineResult(run[r].executed)
              /\ run[r].result.rows_returned = Len(run[r].result.data)
              /\ run[r].result.sql = run[r].executed
              /\ TurnRecorded(r)

C13_Witness ==
    \E r \in Runs :
        /\ SignalsFailed(r) /\ ScoringFailed(r)
        /\ run[r].pc = "done" /\ run[r].terminal = "SUCCESS"
        /\ run[r].conversation_id # NoConv
        /\ run[r].result.data # <<>>

\* C14: a step in which the narrative service call of a call fails (after
\* its statement was executed) sets the insight to the fallback summary of
\* the result table, ends the call in SUCCESS with its rows and no error,
\* and appends the turn to the data history of its conversation.
C14_NarrativeFailureFallsBack ==
    [][\A r \in Runs :
          GenerateInsight(r, FALSE) =>
             /\ run'[r].pc = "done"
             /\ run'[r].terminal = "SUCCESS"
             /\ run'[r].result.insight =
                   (IF run[r].result.data = <<>> THEN "no results" ELSE "fallback summary")
             /\ run'[r].result.data = run[r].result.data
             /\ run'[r].result.data = EngineResult(run[r].executed)
             /\ run'[r].result.error = NoError
             /\ run[r].conversation_id # NoConv =>
                   LET before == DictGet(conversations, run[r].conversation_id, <<>>)
                       after == DictGet(conversations', run[r].conversation_id, <<>>)
                   IN  after = LastN(Append(before, [user_query |-> run[r].user_query,
                                                     sql |-> run[r].sql]), MaxHistory)
             /\ run[r].conversation_id = NoConv => conversations' = conversations]_vars

C14_Witness ==
    \E r \in Runs :
        /\ run[r].pc = "done" /\ run[r].terminal = "SUCCESS"
        /\ run[r].result.insight = "fallback summary"
        /\ run[r].result.data # <<>>
        /\ run[r].conversation_id # NoConv
        /\ LET h == DictGet(conversations, run[r].conversation_id, <<>>)
           IN  h # <<>> /\ h[Len(h)].sql = run[r].sql

\* the call in slot r was classified general
IsGeneralRun(r) == run[r].query_type = "general" /\ run[r].pc \in {"general", "done"}

\* C15: a call the router classifies general enters neither the translation,
\* the validation nor the execution stage, changes no data history and
\* not the result cache, and returns sql = None with empty data, signals and
\* hypotheses.
C15_GeneralTouchesNoData ==
    /\ [](\A r \in Runs :
            IsGeneralRun(r) =>
               /\ Count(run[r].stages, "translate") = 0
               /\ Count(run[r].stages, "validate") = 0
               /\ Count(run[r].stages, "execute") = 0
               /\ run[r].attempt = 0 /\ run[r].last_reply = NoneText
               /\ run[r].executed = NoneText /\ run[r].engine_calls = 0
               /\ query_cache = run[r].cache0
               /\ run[r].result.sql = NoneText
               /\ run[r].result.data = <<>>
               /\ run[r].result.rows_returned = 0
               /\ run[r].result.signals = "empty"
               /\ run[r].result.hypotheses = "empty"
               /\ run[r].pc = "done" => run[r].terminal = "GENERAL_ANSWERED")
    /\ [][(\E r \in Runs : run[r].pc # "idle" /\ run'[r].pc # "idle"
                           /\ run'[r].query_type = "general")
          => /\ conversations' = conversations
             /\ query_cache' = query_cache
             /\ last_execution_time_ms' = last_execution_time_ms
             /\ last_rows_returned' = last_rows_returned]_vars

C15_Witness ==
    \E r \in Runs :
        /\ IsGeneralRun(r) /\ run[r].pc = "done"
        /\ run[r].conversation_id # NoConv
        /\ DictGet(conversations, run[r].conversation_id, <<>>) # <<>>
        /\ query_cache # EmptyDict
        /\ DictGet(general_conversations, run[r].conversation_id, <<>>) # <<>>

\* what a probed text holds, read off the lower-cased, stripped text ql
HitsGeneral(ql) == \E kw \in GENERAL_KEYWORDS : RegexPhrase(ql, kw)

DataHits(ql) == Cardinality({kw \in DATA_KEYWORDS : RegexPhrase(ql, kw)})

HasReferent(ql) == \E indicator \in FOLLOWUP_INDICATORS : Contains(ql, indicator)

HasQuestionMark(ql) == \E i \in 1..Len(ql) : ql[i] = "?"

\* the verdict the answer of the completion service stands for
ReplyVerdict(reply) ==
    IF reply = LlmRaise THEN "data"
    ELSE IF Contains(StrUpper(reply), <<"D", "A", "T", "A">>) THEN "data"
    ELSE IF Contains(StrUpper(reply), <<"G", "E", "N", "E", "R", "A", "L">>) THEN "general"
    ELSE "data"

\* the calls of classify made on the probed text
RouterCalls == IF probe.op = "classify" THEN {probe.calls[i] : i \in DOMAIN probe.calls} ELSE {}

\* C16: with prior data turns, a text that contains a follow-up referent is
\* classified data whatever general or data phrases it hits, and the
\* completion service is not called; without prior data turns the referents
\* have no effect: the verdict is the one of the phrase rules (general on a
\* general hit, data on two data hits or one with a question mark) or else
\* the one of the completion service.
C16_FollowupRule ==
    \A call \in RouterCalls :
    \E ql \in {Strip(StrLower(probe.text))} :
       /\ (probe.has_data_history /\ HasReferent(ql)) =>
             call.verdict = "data" /\ ~call.llm_called
       /\ ~probe.has_data_history =>
             \E hits \in {DataHits(ql)} :
                call.verdict =
                   IF HitsGeneral(ql) THEN "general"
                   ELSE IF hits >= 2 \/ (hits = 1 /\ HasQuestionMark(ql)) THEN "data"
                   ELSE ReplyVerdict(call.reply)

C16_Witness ==
    \E call \in RouterCalls :
    \E ql \in {Strip(StrLower(probe.text))} :
       /\ probe.has_data_history /\ HasReferent(ql)
       /\ HitsGeneral(ql) /\ DataHits(ql) = 1 /\ ~HasQuestionMark(ql)
       /\ call.verdict = "data" /\ ~call.llm_called

\* C17: for a text that hits the general phrases and to which the follow-up
\* rule does not apply, the verdict is data exactly when there are prior data
\* turns, the text has at most 10 words, it contains a question mark and it
\* hits at least one data phrase; in every other case the verdict is general.
C17_GeneralOverrideNeedsDataHit ==
    \A call \in RouterCalls :
    \E ql \in {Strip(StrLower(probe.text))} :
       (HitsGeneral(ql) /\ ~(probe.has_data_history /\ HasReferent(ql))) =>
          call.verdict =
             IF /\ probe.has_data_history
                /\ Len(Split(ql)) <= 10
                /\ HasQuestionMark(ql)
                /\ DataHits(ql) >= 1
             THEN "data" ELSE "general"

\* C18: for a text with no general hit and to which the follow-up rule does
\* not apply, two or more data hits give data, one data hit with a question
\* mark gives data, both without the completion service; with one hit and no
\* question mark, or with no hit, the completion service is called and its
\* answer gives the verdict.
C18_DataPhraseRule ==
    \A call \in RouterCalls :
    \E ql \in {Strip(StrLower(probe.text))} :
       (~HitsGeneral(ql) /\ ~(probe.has_data_history /\ HasReferent(ql))) =>
          \E hits \in {DataHits(ql)} :
             IF hits >= 2 \/ (hits = 1 /\ HasQuestionMark(ql))
             THEN call.verdict = "data" /\ ~call.llm_called
             ELSE call.llm_called /\ call.verdict = ReplyVerdict(call.reply)

C18_Witness ==
    \E call \in RouterCalls :
    \E ql \in {Strip(StrLower(probe.text))} :
       /\ ~HitsGeneral(ql) /\ ~(probe.has_data_history /\ HasReferent(ql))
       /\ DataHits(ql) = 1 /\ ~HasQuestionMark(ql)
       /\ call.llm_called /\ call.verdict = "general"

\* the answer names neither class
NamesNoClass(reply) ==
    /\ reply # LlmRaise
    /\ ~Contains(StrUpper(reply), <<"D", "A", "T", "A">>)
    /\ ~Contains(StrUpper(reply), <<"G", "E", "N", "E", "R", "A", "L">>)

\* C19: when the phrase rules are undecided and the call of the completion
\* service fails, or its answer contains neither DATA nor GENERAL, classify
\* returns data; every call of classify returns, and returns data or
\* general.
C19_ClassifierFailsOpen ==
    \A call \in RouterCalls :
       /\ call.verdict \in {"data", "general"}
       /\ (call.llm_called /\ (call.reply = LlmRaise \/ NamesNoClass(call.reply))) =>
             call.verdict = "data"

C19_Witness ==
    \E failed \in RouterCalls, unsure \in RouterCalls :
       /\ failed.llm_called /\ failed.reply = LlmRaise /\ failed.verdict = "data"
       /\ unsure.llm_called /\ NamesNoClass(unsure.reply) /\ unsure.verdict = "data"

\* the follow-up rule or a phrase rule decides the text ql under the flag
RuleDecides(ql, has_data_history) ==
    \/ has_data_history /\ HasReferent(ql)
    \/ HitsGeneral(ql)
    \/ DataHits(ql) >= 2
    \/ DataHits(ql) = 1 /\ HasQuestionMark(ql)

\* C20: when the follow-up rule or a phrase rule decides, every call of
\* classify on the same text and flag returns the same verdict and none calls
\* the completion service; a call of classify changes neither the inputs nor
\* any state of the engine or the executor.
C20_RouterPure ==
    /\ [](\E ql \in {IF probe.op = "classify" THEN Strip(StrLower(probe.text)) ELSE <<>>} :
            (probe.op = "classify" /\ RuleDecides(ql, probe.has_data_history)) =>
               \A c1 \in RouterCalls, c2 \in RouterCalls :
                  /\ ~c1.llm_called
                  /\ c1.reply = NoneText
                  /\ c1.verdict = c2.verdict)
    /\ [][(probe.op = "classify" /\ probe'.op = "classify") =>
             /\ probe'.text = probe.text
             /\ probe'.has_data_history = probe.has_data_history
             /\ SubSeq(probe'.calls, 1, Len(probe.calls)) = probe.calls
             /\ conversations' = conversations
             /\ general_conversations' = general_conversations
             /\ query_cache' = query_cache
             /\ last_execution_time_ms' = last_execution_time_ms
             /\ last_rows_returned' = last_rows_returned
             /\ run' = run]_vars

C20_Witness ==
    /\ probe.op = "classify"
    /\ Len(probe.calls) = MaxCalls
    /\ \E ql \in {Strip(StrLower(probe.text))} :
          /\ HitsGeneral(ql) /\ DataHits(ql) >= 1 /\ probe.has_data_history
          /\ ~HasReferent(ql)
    /\ \A call \in RouterCalls : ~call.llm_called /\ call.verdict = "general"


\* the exact value of 0.7 * |required & S| / |required|
\* + 0.3 * |supporting & S| / |supporting|, in thousandths, is
\* ExactNum / ExactDen
ExactDen(h, signals) ==
    Cardinality(h.required) * (IF h.supporting = {} THEN 1 ELSE Cardinality(h.supporting))

ExactNum(h, signals) ==
    700 * Cardinality(h.required \cap signals)
        * (IF h.supporting = {} THEN 1 ELSE Cardinality(h.supporting))
    + 300 * Cardinality(h.supporting \cap signals) * Cardinality(h.required)

Abs(n) == IF n < 0 THEN 0 - n ELSE n

\* d is a value with three decimals nearest to the exact value
NearestThousandth(d, h, signals) ==
    2 * Abs(d * ExactDen(h, signals) - ExactNum(h, signals)) <= ExactDen(h, signals)

\* C21: the confidence of every scored hypothesis is 0.7 times the observed
\* fraction of its required signals plus 0.3 times the observed fraction of
\* its supporting signals (0 when it has none), rounded to three decimals,
\* and lies between 0 and 1; required {A, B}, supporting {C}, observed {A}
\* gives 0.35
C21_ConfidenceFormula ==
    probe.op = "scored" =>
        /\ \A i \in 1..Len(probe.scored) :
              /\ probe.scored[i].h.required # {}
              /\ NearestThousandth(probe.scored[i].score, probe.scored[i].h, probe.signals)
              /\ probe.scored[i].score \in 0..1000
        /\ probe.signals = {"A"} =>
              \A i \in 1..Len(probe.scored) :
                 probe.scored[i].h = HypAB => probe.scored[i].score = 350

C21_Witness ==
    /\ probe.op = "scored"
    /\ probe.signals = {"A"}
    /\ \E i \in 1..Len(probe.scored) :
          probe.scored[i].h = HypAB /\ probe.scored[i].score = 350
    /\ \E i \in 1..Len(probe.scored) :
          probe.scored[i].h = HypWide /\ probe.scored[i].score = 700

\* the place of hypothesis h in the library
LibraryIndex(hypotheses, h) == CHOOSE i \in 1..Len(hypotheses) : hypotheses[i] = h

\* C22: the scored list is ordered by confidence, highest first, and
\* hypotheses of equal confidence keep the order they have in the library
C22_SortedStable ==
    probe.op = "scored" =>
        \A i \in 1..Len(probe.scored) : \A j \in (i + 1)..Len(probe.scored) :
            /\ probe.scored[i].score >= probe.scored[j].score
            /\ probe.scored[i].score = probe.scored[j].score =>
                  LibraryIndex(probe.hypotheses, probe.scored[i].h)
                      < LibraryIndex(probe.hypotheses, probe.scored[j].h)

C22_Witness ==
    /\ probe.op = "scored"
    /\ probe.hypotheses = <<HypC, HypWide, HypNone, HypAB>>
    /\ probe.signals = {"A", "B"}
    /\ Len(probe.scored) = 3
    /\ probe.scored[1].h = HypWide /\ probe.scored[1].score = 700
    /\ probe.scored[2].h = HypAB /\ probe.scored[2].score = 700
    /\ probe.scored[3].h = HypC /\ probe.scored[3].score = 0

\* the confidence of hypothesis h in a scored list, -1 when h is not in it
ConfidenceIn(scored, h) ==
    IF \E i \in 1..Len(scored) : scored[i].h = h
    THEN scored[CHOOSE i \in 1..Len(scored) : scored[i].h = h].score
    ELSE 0 - 1

\* C23: observing one more signal never lowers the confidence of a
\* hypothesis
C23_ScoreMonotonic ==
    probe.op = "rescored" =>
        \A i \in 1..Len(probe.hypotheses) :
            ConfidenceIn(probe.rescored, probe.hypotheses[i])
                >= ConfidenceIn(probe.scored, probe.hypotheses[i])

C23_Witness ==
    /\ probe.op = "rescored"
    /\ probe.hypotheses = <<HypAB, HypNone, HypWide, HypC>>
    /\ probe.signals = {"A", "S1"}
    /\ probe.wider = {"A", "S1", "S2"}
    /\ ConfidenceIn(probe.scored, HypWide) < ConfidenceIn(probe.rescored, HypWide)
    /\ ConfidenceIn(probe.scored, HypAB) = 350
    /\ ConfidenceIn(probe.rescored, HypAB) = 350

\* the number of entries of a scored list that are for hypothesis h
Entries(scored, h) == Cardinality({i \in 1..Len(scored) : scored[i].h = h})

\* C24: a hypothesis without required signals is never in the scored list,
\* and every hypothesis with required signals is in it exactly once, also
\* when its confidence is 0
C24_ScoredExactlyOnce ==
    probe.op = "scored" =>
        /\ \A i \in 1..Len(probe.hypotheses) :
              Entries(probe.scored, probe.hypotheses[i])
                  = IF probe.hypotheses[i].required = {} THEN 0 ELSE 1
        /\ \A i \in 1..Len(probe.scored) :
              \E j \in 1..Len(probe.hypotheses) : probe.hypotheses[j] = probe.scored[i].h

C24_Witness ==
    /\ probe.op = "scored"
    /\ probe.hypotheses = <<HypAB, HypNone, HypWide, HypC>>
    /\ probe.signals = {"B"}
    /\ Entries(probe.scored, HypNone) = 0
    /\ ConfidenceIn(probe.scored, HypAB) = 350
    /\ Entries(probe.scored, HypWide) = 1 /\ ConfidenceIn(probe.scored, HypWide) = 0
    /\ Entries(probe.scored, HypC) = 1 /\ ConfidenceIn(probe.scored, HypC) = 0

\* the probed table has no row
ProbedTableEmpty == \A i \in 1..Len(probe.df) : probe.df[i].values = <<>>

\* C25 as stated: detection returns the empty signal set exactly for the
\* empty tables
C25_EmptySetIffEmptyTable ==
    probe.op = "detected" => (probe.signals = {} <=> ProbedTableEmpty)

\* C25: an empty table yields the empty signal set, whatever its columns
\* and the question are; a table with rows yields the empty set too when
\* none of the detection rules applies to it
C25_EmptyTableNoSignals ==
    probe.op = "detected" /\ ProbedTableEmpty => probe.signals = {}

C25_Witness ==
    /\ probe.op = "detected"
    /\ ProbedTableEmpty
    /\ Len(probe.df) = 2
    /\ probe.df[1].name = T_Network_Type
    /\ probe.df[2].name = T_transaction_status
    /\ probe.query_context = T_fraud_risk
    /\ probe.signals = {}

\* a table with rows and no signal
C25_RowsWithoutSignal ==
    /\ probe.op = "detected"
    /\ ~ProbedTableEmpty
    /\ probe.signals = {}

\* the step is a call of clear_conversation with this argument: no
\* process_query call moves, and the call is the one noted in probe
IsClearStep(conversation_id) ==
    /\ run' = run
    /\ probe'.op = "clear_conversation"
    /\ probe'.conversation_id = conversation_id

\* conversation id has the same data track and the same general track
\* before and after the step
TracksKept(id) ==
    /\ (id \in DOMAIN conversations') = (id \in DOMAIN conversations)
    /\ DictGet(conversations', id, <<>>) = DictGet(conversations, id, <<>>)
    /\ (id \in DOMAIN general_conversations') = (id \in DOMAIN general_conversations)
    /\ DictGet(general_conversations', id, <<>>) = DictGet(general_conversations, id, <<>>)

\* C26: clear_conversation(id) removes the data track and the general track
\* of id and leaves the tracks of every other conversation and the cache as
\* they were; clear_conversation() removes every track of every
\* conversation and leaves the cache as it was; the first process_query of
\* a conversation after its clear is routed with has_data_history false and
\* translated with an empty history
C26_ClearConversation ==
    [][/\ \A id \in ClearConvIds :
             IsClearStep(id) =>
                /\ id \notin DOMAIN conversations'
                /\ id \notin DOMAIN general_conversations'
                /\ \A other \in ClearConvIds \ {id} : TracksKept(other)
                /\ query_cache' = query_cache
       /\ IsClearStep(NoConv) =>
             /\ DOMAIN conversations' = {}
             /\ DOMAIN general_conversations' = {}
             /\ query_cache' = query_cache
       /\ \A r \in Runs, id \in ClearConvIds :
             /\ run[r].pc = "idle" /\ run'[r].pc = "route"
             /\ run'[r].conversation_id = id
             /\ probe.op = "clear_conversation"
             /\ probe.conversation_id \in {id, NoConv}
             /\ id \notin DOMAIN conversations
             => ~run'[r].has_data_history /\ run'[r].history0 = <<>>
      ]_vars

C26_Witness ==
    /\ probe.op = "clear_conversation"
    /\ probe.conversation_id = "c1"
    /\ probe.tracks = 4
    /\ "c1" \notin DOMAIN conversations /\ "c1" \notin DOMAIN general_conversations
    /\ "c2" \in DOMAIN conversations /\ "c2" \in DOMAIN general_conversations
    /\ query_cache # EmptyDict
    /\ \E r \in Runs :
          /\ run[r].pc = "translate"
          /\ run[r].conversation_id = "c1"
          /\ ~run[r].has_data_history
          /\ run[r].history0 = <<>>

\* C27: whatever the callers do to the tables they were given by execute,
\* a cache hit returns the table the earlier calls for the same text
\* returned: the object in the cache is in no caller's hands, and every
\* call returns an object no earlier call returned
C27_CachedTableIsolated ==
    probe.op = "objects" =>
        /\ \A i \in 1..Len(probe.calls) : \A j \in (i + 1)..Len(probe.calls) :
              /\ probe.calls[i].object # probe.calls[j].object
              /\ probe.calls[j].hit /\ probe.calls[j].sql = probe.calls[i].sql
                    => probe.calls[j].content = probe.calls[i].content
        /\ \A sql \in DOMAIN query_cache : query_cache[sql] \notin probe.held

C27_Witness ==
    /\ probe.op = "objects"
    /\ Len(probe.calls) = 3
    /\ probe.calls[1].sql = probe.calls[3].sql
    /\ probe.calls[2].sql = probe.calls[3].sql
    /\ ~probe.calls[1].hit /\ probe.calls[2].hit /\ probe.calls[3].hit
    /\ Len(probe.calls[3].content) > 0
    /\ probe.heap[probe.calls[1].object] # probe.calls[1].content
    /\ probe.heap[probe.calls[2].object] # probe.calls[2].content
    /\ probe.heap[probe.calls[3].object] = probe.calls[1].content

\* the calls whose self.conn.execute(sql) is in progress
InEngine == {r \in DOMAIN run : run[r].pc = "exec_engine"}

\* C28: at most one execution is in progress on the shared connection at
\* any time, also while process_query calls overlap
C28_EngineCallsExclusive == Cardinality(InEngine) <= 1

\* C29: every SQL text returned by translate, with the LIMIT clause it may
\* have been given, passes validate_query, so the safety validator never
\* blocks a statement the translator has returned
C29_TranslatedPassesValidator ==
    probe.op = "translate" /\ probe.ok => validate_query(probe.sql)

\* a returned statement that holds DELETE inside a longer word and got the
\* LIMIT clause
C29_Witness ==
    /\ probe.op = "translate"
    /\ probe.ok
    /\ Contains(StrUpper(probe.text), <<"D", "E", "L", "E", "T", "E">>)
    /\ Len(probe.sql) > Len(LimitClause)
    /\ StrFrom(probe.sql, Len(probe.sql) - Len(LimitClause) + 1) = LimitClause
    /\ validate_query(probe.sql)

\* the statement of a returned SQL text without the LIMIT clause that
\* _ensure_limit may have appended
StatementOf(sql) ==
    IF Len(sql) >= Len(LimitClause)
       /\ StrFrom(sql, Len(sql) - Len(LimitClause) + 1) = LimitClause
    THEN SubSeq(sql, 1, Len(sql) - Len(LimitClause))
    ELSE sql

EndsWithTerminator(sql) == Len(sql) > 0 /\ sql[Len(sql)] = ";"

\* C30: whatever the completion service answers, the post-processed SQL
\* text does not end with ';': neither the statement a returned text is
\* made of (the text before an appended LIMIT clause) nor the cleaned text
\* of a response that fails the translator's check
C30_NoTrailingTerminator ==
    probe.op = "translate" =>
        /\ probe.ok => ~EndsWithTerminator(StatementOf(probe.sql))
        /\ probe.error.kind = "SQL failed validation" => ~EndsWithTerminator(probe.error.sql)

\* a fenced response whose statement ends with ';' and a line break was
\* returned with the LIMIT clause behind the terminator
C30_TerminatorBeforeLimit ==
    /\ probe.op = "translate"
    /\ probe.ok
    /\ probe.text = <<"S", "E", "L", "E", "C", "T", " ">> \o TableName \o <<";", "\n", BT, BT, BT>>
    /\ probe.sql = <<"S", "E", "L", "E", "C", "T", " ">> \o TableName \o <<";">> \o LimitClause

\* the statement has a LIMIT clause: the keyword LIMIT stands in it as a
\* whole word, in any letter case
HasLimitClause(sql) == HasStandaloneWord(sql, {KwLimit})

\* C31: translate appends the clause LIMIT 10000 to the validated statement
\* exactly when the statement has no LIMIT clause of its own: a statement
\* with a LIMIT clause is returned unchanged, and every returned SQL text
\* carries a LIMIT clause
C31_LimitAppendedWhenAbsent ==
    probe.op = "translate" /\ probe.ok =>
        LET cleaned == _clean_sql(Strip(probe.text))
        IN  /\ HasLimitClause(cleaned) => probe.sql = cleaned
            /\ ~HasLimitClause(cleaned) => probe.sql = cleaned \o LimitClause
            /\ HasLimitClause(probe.sql)

\* a statement that names the column transactions_limit and has no LIMIT
\* clause was returned as it is
C31_ReturnedWithoutLimit ==
    /\ probe.op = "translate"
    /\ probe.ok
    /\ probe.text = <<"S", "E", "L", "E", "C", "T", " ">> \o TableName
                        \o <<"_", "l", "i", "m", "i", "t">>
    /\ probe.sql = probe.text

\* the call has been through its execution step
Executed(r) == InList("execute", run[r].stages)

\* C32: an execution that fails ends the call in EXECUTION_FAILED after one
\* engine call, with the error set, as the last stage of the call (no
\* further translation or execution attempt) and with the cache as the call
\* found it, so the failed text is not cached; an execution of a text that
\* is not cached calls the engine, once
C32_ExecutionFailureNotRetried ==
    \A r \in Runs :
        /\ (run[r].pc = "done" /\ run[r].terminal = "EXECUTION_FAILED") =>
              /\ run[r].engine_calls = 1
              /\ Count(run[r].stages, "execute") = 1
              /\ run[r].stages[Len(run[r].stages)] = "execute"
              /\ run[r].result.error = [kind |-> "QueryExecutionError"]
              /\ run[r].result.data = <<>>
              /\ query_cache = run[r].cache0
              /\ run[r].executed \notin DOMAIN query_cache
        /\ (Executed(r) /\ run[r].executed \notin DOMAIN run[r].cache0) =>
              run[r].engine_calls = 1
        /\ (Executed(r) /\ run[r].terminal # "EXECUTION_FAILED") =>
              run[r].result.error = NoError

\* a call whose second translation attempt gave the statement that failed
\* in the engine
C32_Witness ==
    \E r \in Runs :
        /\ run[r].pc = "done"
        /\ run[r].terminal = "EXECUTION_FAILED"
        /\ Count(run[r].stages, "translate") = 2
        /\ run[r].engine_calls = 1
        /\ run[r].executed \notin DOMAIN query_cache

\* C33: for a text that the phrase rules decide when has_data_history is
\* false, the verdict of a call with has_data_history true is DATA whenever
\* the verdict with has_data_history false is DATA: the flag can turn
\* GENERAL into DATA and never DATA into GENERAL
C33_HistoryFlagOnlyAddsData ==
    probe.op = "classify" =>
        \A ql \in {Strip(StrLower(probe.text))} :
        \A call \in RouterCalls :
            (/\ probe.has_data_history
             /\ ~_llm_classify_called(ql, _keyword_classify(ql), FALSE)) =>
                /\ classify(probe.text, FALSE, call.reply) \in {"data", "general"}
                /\ classify(probe.text, FALSE, call.reply) = "data" =>
                      call.verdict = "data"
                /\ call.verdict = "general" =>
                      classify(probe.text, FALSE, call.reply) = "general"

\* a text that is GENERAL without data history and DATA with it
C33_Witness ==
    /\ probe.op = "classify"
    /\ probe.has_data_history
    /\ \E ql \in {Strip(StrLower(probe.text))} :
          ~_llm_classify_called(ql, _keyword_classify(ql), FALSE)
    /\ \E call \in RouterCalls :
          /\ call.verdict = "data"
          /\ classify(probe.text, FALSE, call.reply) = "general"

\* the conversation id of the call that takes the step in slot r
StepConversation(r) ==
    IF run[r].pc = "idle" THEN run'[r].conversation_id ELSE run[r].conversation_id

\* C34: a step of a process_query call for a conversation leaves both
\* tracks of every other conversation as they were, and the history flag
\* and the context turns of the call are those of its own data track; a
\* call without a conversation id is routed with has_data_history false,
\* translated with no context turns, and changes no track at any step
C34_ConversationsIsolated ==
    [][\A r \in Runs :
          run'[r] # run[r] /\ run'[r].pc # "idle" =>
             /\ \A other \in ClearConvIds \ {StepConversation(r)} : TracksKept(other)
             /\ NoConv \notin DOMAIN conversations'
             /\ NoConv \notin DOMAIN general_conversations'
             /\ run[r].pc = "idle" =>
                   /\ run'[r].has_data_history =
                         (/\ run'[r].conversation_id \in DOMAIN conversations
                          /\ conversations[run'[r].conversation_id] # <<>>)
                   /\ run'[r].history0 =
                         IF run'[r].conversation_id \in DOMAIN conversations
                         THEN conversations[run'[r].conversation_id]
                         ELSE <<>>
             /\ StepConversation(r) = NoConv =>
                   /\ conversations' = conversations
                   /\ general_conversations' = general_conversations
                   /\ ~run'[r].has_data_history
                   /\ run'[r].history0 = <<>>
      ]_vars

\* a call without a conversation id has ended in a failure while both
\* conversations have both tracks
C34_Witness ==
    /\ \A id \in ClearConvIds :
          id \in DOMAIN conversations /\ id \in DOMAIN general_conversations
    /\ \E r \in Runs :
          /\ run[r].pc = "done"
          /\ run[r].conversation_id = NoConv
          /\ run[r].terminal = "TRANSLATION_FAILED"
          /\ ~run[r].has_data_history
          /\ run[r].history0 = <<>>

FailureTerminals == {"TRANSLATION_FAILED", "VALIDATION_BLOCKED", "EXECUTION_FAILED"}

\* C35: the record a call returns has an error exactly when the call ended
\* in TRANSLATION_FAILED, VALIDATION_BLOCKED or EXECUTION_FAILED; a call
\* that ended in SUCCESS (with or without the fallback summary or a failed
\* analysis step) or in GENERAL_ANSWERED returns error = None
C35_ErrorIffFailureTerminal ==
    \A r \in Runs :
        run[r].pc = "done" =>
            /\ run[r].terminal \in Terminals
            /\ (run[r].result.error # NoError) = (run[r].terminal \in FailureTerminals)

\* a call of the first orchestrator that ended in SUCCESS with the fallback
\* summary and an error in its record
C35_SuccessWithError ==
    \E r \in Runs :
        /\ run[r].pc = "done"
        /\ run[r].terminal = "SUCCESS"
        /\ run[r].result.insight = "fallback summary"
        /\ run[r].result.error # NoError

\* a sequence without its last element
Front(seq) == SubSeq(seq, 1, Len(seq) - 1)

\* the messages between the system prompt and the question
ContextOf(messages) == SubSeq(messages, 2, Len(messages) - 1)

\* the call in slot r has ended in GENERAL_ANSWERED for a conversation
GeneralDone(r) ==
    /\ run[r].pc = "done"
    /\ run[r].terminal = "GENERAL_ANSWERED"
    /\ run[r].conversation_id # NoConv

\* the answer of the call in slot r was composed from the system prompt, at
\* most ContextTurns turns and the question, the turns being the last ones
\* of the track as it was before the call (earlier)
ComposedFrom(r, earlier) ==
    /\ Len(run[r].messages) <= 2 * ContextTurns + 2
    /\ run[r].messages[1].role = "system"
    /\ run[r].messages[Len(run[r].messages)].role = "user"
    /\ run[r].messages[Len(run[r].messages)].content = run[r].user_query
    /\ ContextOf(run[r].messages) = general_turns(LastN(earlier, ContextTurns))

\* C36: when a call routed general for a conversation has ended in
\* GENERAL_ANSWERED, the last entry of the conversation's general track is
\* the pair of its question and its answer, and its answer was composed
\* from at most the last ContextTurns earlier pairs of that track
C36_GeneralTurnRecorded ==
    \A r \in Runs :
        GeneralDone(r) =>
            LET track == DictGet(general_conversations, run[r].conversation_id, <<>>)
            IN  /\ track # <<>>
                /\ track[Len(track)].user = run[r].user_query
                /\ track[Len(track)].assistant = run[r].result.insight
                /\ ComposedFrom(r, Front(track))

\* a call for a conversation ended in GENERAL_ANSWERED with the fixed
\* fallback text, and the conversation has no general track
C36_AnsweredUnrecorded ==
    \E r \in Runs :
        /\ GeneralDone(r)
        /\ run[r].result.insight = "general fallback"
        /\ run[r].conversation_id \notin DOMAIN general_conversations

Min(a, b) == IF a < b THEN a ELSE b

\* the call in slot r has sent a translation request
Translating(r) == InList("translate", run[r].stages)

Detected == probe.op \in {"detected", "detected_single"}

\* the probed table has rows and a numeric column named after retries in
\* which some value is above 2
RetriesAboveTwo ==
    /\ ~ProbedTableEmpty
    /\ \E i \in 1..Len(probe.df) :
          /\ Contains(StrLower(probe.df[i].name), T_retry)
          /\ probe.df[i].dtype \in {"float64", "int64"}
          /\ \E j \in 1..Len(probe.df[i].values) : probe.df[i].values[j] > 2

HasExternalType ==
    \E i \in 1..Len(probe.df) :
        /\ probe.df[i].name = T_transaction_type
        /\ \E j \in 1..Len(probe.df[i].texts) :
              probe.df[i].texts[j] \in {T_Bill_Payment, T_Recharge}

\* the probed question mentions bill, recharge or biller, in any case
MentionsBilling ==
    \E k \in {T_bill, T_recharge, T_biller} : Contains(StrLower(probe.query_context), k)

MentionsFraud ==
    \E k \in {T_fraud, T_flag, T_risk} : Contains(StrLower(probe.query_context), k)

C40_EmptyTableFraudQuestion ==
    /\ Detected
    /\ ProbedTableEmpty
    /\ MentionsFraud
    /\ "FRAUD_CONCENTRATION" \notin probe.signals
====
